---- MODULE Spec2Model ----
(***************************************************************************)
(* Fluxora resilience / coordination core:                                 *)
(*   code/core/transaction_coordinator.py  (two-phase commit)              *)
(*   code/core/circuit_breaker.py          (circuit breaker)               *)
(*   code/core/retry.py, code/core/fallback.py (retry, fallback wrappers)  *)
(*   code/core/saga_orchestrator.py        (saga with compensation)        *)
(* Each component has its own specification over its own variables; the    *)
(* variables of the other components are left unchanged.                   *)
(***************************************************************************)
EXTENDS Naturals, Integers, Sequences, FiniteSets, TLC

(***************************************************************************)
(* Bounds of the model.                                                    *)
(***************************************************************************)
MaxParts == 2
MaxOps == 3
MaxThreshold == 3
MaxTimeout == 2
MaxTime == 5
MaxAttempts == 3
MaxSteps == 3
MaxBaseDelay == 2
MaxMaxDelay == 3
MaxBackoffFactor == 2
MaxStrategies == 3
MaxArg == 2
MaxCBOps == 3

Parts == 1..MaxParts
Threads == {"t1", "t2"}
MainThread == "t1"

Range(s) == {s[k] : k \in 1..Len(s)}

VARIABLES
    \* ---- TransactionCoordinator: one entry of self.transactions ----
    status,        \* transaction["status"]; "NONE" = id not in self.transactions
    participants,  \* transaction["participants"], in registration order
    pc,            \* per thread: position inside the coordinator method it runs
    op,            \* per thread: the public method called last
    idx,           \* per thread: position of the for-loop over participants
    ret,           \* per thread: outcome of the last public method call
    calls,         \* per thread: participant calls made by the running method
    failedAt,      \* per thread: participant whose prepare failed in this call
    sentPrepare,   \* participants whose prepare(id) returned True
    sentCommit,    \* participants that have been sent commit(id)
    sentAbort,     \* participants that have been sent abort(id)
    opCount,       \* number of prepare/commit/abort/execute calls started
    call_log,      \* per thread: the participant calls of the running method, in
                   \* order, each with what the participant answered (history)
    \* ---- CircuitBreaker: one instance ----
    state,             \* self.state
    failure_count,     \* self.failure_count
    last_failure_time, \* self.last_failure_time
    failure_threshold, \* self.failure_threshold (configuration)
    recovery_timeout,  \* self.recovery_timeout (configuration)
    fallback_function, \* TRUE iff a fallback function was given at construction
    now,               \* the clock read by time.time()
    result,            \* what the last call() gave its caller
    invoked,           \* TRUE iff the last call() invoked the wrapped function
    invoked_in,        \* self.state when the last call() invoked it, else "none"
    failures,          \* failed calls since the breaker was last fresh (history)
    consecutive,       \* failed calls in a row, up to the last call (history)
    \* ---- CircuitBreaker called from several threads ----
    cb_lock,           \* self.lock: the thread that holds it, or "free"
    cpc,               \* per thread: position inside call / reset / get_state
    cop,               \* per thread: the method called last
    cb_local,          \* per thread: the value read by self.failure_count += 1
    snapshot,          \* per thread: the dict get_state is building / returned
    cb_ops,            \* number of call / reset / get_state calls started
    \* ---- breaker(retry(with_fallback(op))): the decorated function ----
    max_attempts,      \* retry(max_attempts=...)
    outs_in,           \* what op does on its successive invocations (input of the last call)
    invocations,       \* number of times the last call invoked op
    sleeps,            \* the time.sleep calls of the last call, in order
    base_delay,        \* retry(base_delay=...)
    max_delay,         \* retry(max_delay=...)
    backoff_factor,    \* retry(backoff_factor=...)
    jitter,            \* retry(jitter=...)
    outcome,           \* what the last call of the bare retry wrapper gave its caller
    \* ---- fallback strategies and with_fallback ----
    strategies,        \* ChainedFallback.strategies: what each strategy's execute does
    fb_op,             \* the last call: "execute" of the chain, or the "wrapper"
    fb_func,           \* what the wrapped function did in the last wrapper call
    fb_args,           \* the arguments of the last call
    fb_calls,          \* the calls made by the last call, in order (history)
    fb_outcome,        \* what the last call gave its caller
    \* ---- saga orchestrator: one entry of sagas ----
    saga_state,         \* saga.state; "NONE" = id not in sagas
    steps,              \* saga.steps[k].state; step k of the code is steps[k + 1]
    step_result,        \* saga.steps[k].result
    current_step_index, \* saga.current_step_index (0-based, as in the code)
    spc,                \* position of the background task running execute_saga
    comp_i,             \* loop variable i of compensate_saga
    remote_calls,       \* requests.post calls made so far, in order (history)
    failed_at,          \* index of the step whose action failed, -1 if none (history)
    unresolved,         \* steps whose compensation found no service address (history)
    observed            \* what the last get_saga request returned

txVars == <<status, participants, pc, op, idx, ret, calls, failedAt,
            sentPrepare, sentCommit, sentAbort, opCount, call_log>>

cbVars == <<state, failure_count, last_failure_time, failure_threshold,
            recovery_timeout, fallback_function, now, result, invoked, invoked_in,
            failures, consecutive>>

stackVars == <<max_attempts, outs_in, invocations, sleeps, base_delay, max_delay,
               backoff_factor, jitter, outcome>>

sagaVars == <<saga_state, steps, step_result, current_step_index, spc, comp_i,
              remote_calls, failed_at, unresolved, observed>>

fbVars == <<strategies, fb_op, fb_func, fb_args, fb_calls, fb_outcome>>

cbConcVars == <<cb_lock, cpc, cop, cb_local, snapshot, cb_ops>>

vars == <<txVars, cbVars, cbConcVars, stackVars, fbVars, sagaVars>>

(***************************************************************************)
(* TransactionStatus and the outcomes of a participant method.             *)
(***************************************************************************)
TransactionStatus == {"CREATED", "PREPARED", "COMMITTED", "ABORTED"}

\* TransactionParticipant.prepare / commit / abort: returns a bool or raises
ParticipantOutcome == {"True", "False", "raise"}

NoCalls == [m \in {"prepare", "commit", "abort"} |-> [p \in Parts |-> 0]]

Called(t, m, p) == [calls EXCEPT ![t][m][p] = @ + 1]

\* participant p answered o to method m
Logged(t, m, p, o) == [call_log EXCEPT ![t] = Append(@, [m |-> m, p |-> p, o |-> o])]

Return(t, r) == /\ pc' = [pc EXCEPT ![t] = "idle"]
                /\ ret' = [ret EXCEPT ![t] = r]

TxInit ==
    /\ status = "NONE"
    /\ participants = <<>>
    /\ pc = [t \in Threads |-> "idle"]
    /\ op = [t \in Threads |-> "none"]
    /\ idx = [t \in Threads |-> 0]
    /\ ret = [t \in Threads |-> "none"]
    /\ calls = [t \in Threads |-> NoCalls]
    /\ failedAt = [t \in Threads |-> 0]
    /\ sentPrepare = {}
    /\ sentCommit = {}
    /\ sentAbort = {}
    /\ opCount = 0
    /\ call_log = [t \in Threads |-> <<>>]

\* create_transaction: a fresh id enters self.transactions
create_transaction(t) ==
    /\ pc[t] = "idle"
    /\ status = "NONE"
    /\ status' = "CREATED"
    /\ participants' = <<>>
    /\ op' = [op EXCEPT ![t] = "create"]
    /\ ret' = [ret EXCEPT ![t] = "id"]
    /\ UNCHANGED <<pc, idx, calls, call_log, failedAt, sentPrepare, sentCommit, sentAbort, opCount>>

\* register_participant: False on an unknown id, else append (any status)
register_participant(t, p) ==
    /\ pc[t] = "idle"
    /\ p \notin Range(participants)
    /\ op' = [op EXCEPT ![t] = "register"]
    /\ IF status = "NONE"
          THEN /\ ret' = [ret EXCEPT ![t] = "False"]
               /\ UNCHANGED participants
          ELSE /\ participants' = Append(participants, p)
               /\ ret' = [ret EXCEPT ![t] = "True"]
    /\ UNCHANGED <<status, pc, idx, calls, call_log, failedAt, sentPrepare, sentCommit, sentAbort, opCount>>

\* The guard of prepare_transaction (lines 74-81)
PrepareGuard == status = "CREATED"

\* prepare_transaction, entry: the id / status guards; m is "prepare" or "execute"
prepare_begin(t, m) ==
    /\ pc[t] = "idle"
    /\ opCount < MaxOps
    /\ opCount' = opCount + 1
    /\ op' = [op EXCEPT ![t] = m]
    /\ calls' = [calls EXCEPT ![t] = NoCalls]
    /\ call_log' = [call_log EXCEPT ![t] = <<>>]
    /\ failedAt' = [failedAt EXCEPT ![t] = 0]
    /\ IF PrepareGuard
          THEN /\ pc' = [pc EXCEPT ![t] = "prepare"]
               /\ idx' = [idx EXCEPT ![t] = 1]
               /\ ret' = [ret EXCEPT ![t] = "none"]
          ELSE /\ Return(t, "False")
               /\ UNCHANGED idx
    /\ UNCHANGED <<status, participants, sentPrepare, sentCommit, sentAbort>>

prepare_transaction(t) == prepare_begin(t, "prepare")

\* execute_transaction: prepare_transaction, then commit_transaction if True
execute_transaction(t) == prepare_begin(t, "execute")

\* What prepare_transaction does once every participant has prepared
PrepareDone(t) ==
    /\ status' = "PREPARED"
    /\ IF op[t] = "execute"
          THEN /\ pc' = [pc EXCEPT ![t] = "exec_commit"]
               /\ UNCHANGED ret
          ELSE Return(t, "True")

\* one iteration of the for-loop of prepare_transaction (lines 85-106)
prepare_step(t) ==
    /\ pc[t] = "prepare"
    /\ IF idx[t] > Len(participants)
          THEN /\ PrepareDone(t)
               /\ UNCHANGED <<idx, calls, call_log, failedAt, sentPrepare>>
          ELSE LET p == participants[idx[t]] IN
               \E o \in ParticipantOutcome :
                  /\ calls' = Called(t, "prepare", p)
                  /\ call_log' = Logged(t, "prepare", p, o)
                  /\ UNCHANGED status
                  /\ CASE o = "True" ->
                            /\ idx' = [idx EXCEPT ![t] = @ + 1]
                            /\ sentPrepare' = sentPrepare \cup {p}
                            /\ UNCHANGED <<pc, ret, failedAt>>
                       [] o = "False" ->
                            /\ pc' = [pc EXCEPT ![t] = "abort_in_try"]
                            /\ idx' = [idx EXCEPT ![t] = 1]
                            /\ failedAt' = [failedAt EXCEPT ![t] = p]
                            /\ UNCHANGED <<ret, sentPrepare>>
                       [] o = "raise" ->
                            /\ pc' = [pc EXCEPT ![t] = "abort_in_except"]
                            /\ idx' = [idx EXCEPT ![t] = 1]
                            /\ failedAt' = [failedAt EXCEPT ![t] = p]
                            /\ UNCHANGED <<ret, sentPrepare>>
    /\ UNCHANGED <<participants, op, sentCommit, sentAbort, opCount>>

\* What happens when p.abort raises inside the try block (line 90): the
\* except clause of line 96 catches it and starts its own abort loop.
AbortRaisedInTry(t) ==
    /\ pc' = [pc EXCEPT ![t] = "abort_in_except"]
    /\ idx' = [idx EXCEPT ![t] = 1]
    /\ UNCHANGED <<ret, status>>

\* the abort loop inside the try block (lines 89-93), after prepare returned False
prepare_abort_in_try(t) ==
    /\ pc[t] = "abort_in_try"
    /\ IF idx[t] > Len(participants)
          THEN /\ status' = "ABORTED"
               /\ Return(t, "False")
               /\ UNCHANGED <<idx, calls, call_log, sentAbort>>
          ELSE LET p == participants[idx[t]] IN
               \E o \in ParticipantOutcome :
                  /\ calls' = Called(t, "abort", p)
                  /\ call_log' = Logged(t, "abort", p, o)
                  /\ sentAbort' = sentAbort \cup {p}
                  /\ IF o = "raise"
                        THEN AbortRaisedInTry(t)
                        ELSE /\ idx' = [idx EXCEPT ![t] = @ + 1]
                             /\ UNCHANGED <<pc, ret, status>>
    /\ UNCHANGED <<participants, op, failedAt, sentPrepare, sentCommit, opCount>>

\* What happens when p.abort raises inside the except block (line 99): nothing
\* catches it, the exception leaves prepare_transaction (and execute_transaction).
AbortRaisedInExcept(t) ==
    /\ Return(t, "raised")
    /\ UNCHANGED <<idx, status>>

\* the abort loop inside the except block (lines 98-102)
prepare_abort_in_except(t) ==
    /\ pc[t] = "abort_in_except"
    /\ IF idx[t] > Len(participants)
          THEN /\ status' = "ABORTED"
               /\ Return(t, "False")
               /\ UNCHANGED <<idx, calls, call_log, sentAbort>>
          ELSE LET p == participants[idx[t]] IN
               \E o \in ParticipantOutcome :
                  /\ calls' = Called(t, "abort", p)
                  /\ call_log' = Logged(t, "abort", p, o)
                  /\ sentAbort' = sentAbort \cup {p}
                  /\ IF o = "raise"
                        THEN AbortRaisedInExcept(t)
                        ELSE /\ idx' = [idx EXCEPT ![t] = @ + 1]
                             /\ UNCHANGED <<pc, ret, status>>
    /\ UNCHANGED <<participants, op, failedAt, sentPrepare, sentCommit, opCount>>

\* CommitGuard checking the id only (fault: no status guard)
CommitGuard_IdOnly == status # "NONE"

\* The guard of commit_transaction (lines 112-119)
CommitGuard == status = "PREPARED"

\* CommitFailed giving the transaction up (fault: status changed)
CommitFailed_MarksAborted(t) ==
    /\ Return(t, "False")
    /\ status' = "ABORTED"
    /\ UNCHANGED idx

\* lines 125-132: a commit that returned False or raised ends the loop
CommitFailed(t) ==
    /\ Return(t, "False")
    /\ UNCHANGED <<idx, status>>

\* commit_transaction, entry: called directly, or by execute_transaction
commit_transaction(t) ==
    /\ \/ /\ pc[t] = "idle"
          /\ opCount < MaxOps
          /\ opCount' = opCount + 1
          /\ op' = [op EXCEPT ![t] = "commit"]
          /\ calls' = [calls EXCEPT ![t] = NoCalls]
          /\ call_log' = [call_log EXCEPT ![t] = <<>>]
          /\ failedAt' = [failedAt EXCEPT ![t] = 0]
       \/ /\ pc[t] = "exec_commit"
          /\ UNCHANGED <<opCount, op, calls, call_log, failedAt>>
    /\ IF CommitGuard
          THEN /\ pc' = [pc EXCEPT ![t] = "commit"]
               /\ idx' = [idx EXCEPT ![t] = 1]
               /\ ret' = [ret EXCEPT ![t] = "none"]
          ELSE /\ Return(t, "False")
               /\ UNCHANGED idx
    /\ UNCHANGED <<status, participants, sentPrepare, sentCommit, sentAbort>>

\* one iteration of the for-loop of commit_transaction (lines 122-135)
commit_step(t) ==
    /\ pc[t] = "commit"
    /\ IF idx[t] > Len(participants)
          THEN /\ status' = "COMMITTED"
               /\ Return(t, "True")
               /\ UNCHANGED <<idx, calls, call_log, sentCommit>>
          ELSE LET p == participants[idx[t]] IN
               \E o \in ParticipantOutcome :
                  /\ calls' = Called(t, "commit", p)
                  /\ call_log' = Logged(t, "commit", p, o)
                  /\ sentCommit' = sentCommit \cup {p}
                  /\ IF o = "True"
                        THEN /\ idx' = [idx EXCEPT ![t] = @ + 1]
                             /\ UNCHANGED <<pc, ret, status>>
                        ELSE CommitFailed(t)
    /\ UNCHANGED <<participants, op, failedAt, sentPrepare, sentAbort, opCount>>

\* The guard of abort_transaction (lines 141-142): only the id is checked
AbortGuard == status # "NONE"

\* abort_transaction, entry
abort_transaction(t) ==
    /\ pc[t] = "idle"
    /\ opCount < MaxOps
    /\ opCount' = opCount + 1
    /\ op' = [op EXCEPT ![t] = "abort"]
    /\ calls' = [calls EXCEPT ![t] = NoCalls]
    /\ call_log' = [call_log EXCEPT ![t] = <<>>]
    /\ failedAt' = [failedAt EXCEPT ![t] = 0]
    /\ IF AbortGuard
          THEN /\ pc' = [pc EXCEPT ![t] = "abort"]
               /\ idx' = [idx EXCEPT ![t] = 1]
               /\ ret' = [ret EXCEPT ![t] = "none"]
          ELSE /\ Return(t, "False")
               /\ UNCHANGED idx
    /\ UNCHANGED <<status, participants, sentPrepare, sentCommit, sentAbort>>

\* abort_step without the try of lines 148-152 (fault: a raising abort ends
\* the loop)
abort_step_StopsOnRaise(t) ==
    /\ pc[t] = "abort"
    /\ IF idx[t] > Len(participants)
          THEN /\ status' = "ABORTED"
               /\ Return(t, "True")
               /\ UNCHANGED <<idx, calls, call_log, sentAbort>>
          ELSE LET p == participants[idx[t]] IN
               \E o \in ParticipantOutcome :
                  /\ calls' = Called(t, "abort", p)
                  /\ call_log' = Logged(t, "abort", p, o)
                  /\ sentAbort' = sentAbort \cup {p}
                  /\ IF o = "raise"
                        THEN /\ Return(t, "raised")
                             /\ UNCHANGED <<idx, status>>
                        ELSE /\ idx' = [idx EXCEPT ![t] = @ + 1]
                             /\ UNCHANGED <<status, pc, ret>>
    /\ UNCHANGED <<participants, op, failedAt, sentPrepare, sentCommit, opCount>>

\* one iteration of the for-loop of abort_transaction (lines 147-156)
abort_step(t) ==
    /\ pc[t] = "abort"
    /\ IF idx[t] > Len(participants)
          THEN /\ status' = "ABORTED"
               /\ Return(t, "True")
               /\ UNCHANGED <<idx, calls, call_log, sentAbort>>
          ELSE LET p == participants[idx[t]] IN
               \E o \in ParticipantOutcome :
                  /\ calls' = Called(t, "abort", p)
                  /\ call_log' = Logged(t, "abort", p, o)
                  /\ sentAbort' = sentAbort \cup {p}
                  /\ idx' = [idx EXCEPT ![t] = @ + 1]
                  /\ UNCHANGED <<status, pc, ret>>
    /\ UNCHANGED <<participants, op, failedAt, sentPrepare, sentCommit, opCount>>

\* the variables a coordinator step leaves alone
TxFrame == UNCHANGED <<cbConcVars, cbVars, stackVars, fbVars, sagaVars>>

\* every coordinator step of thread t
TxStep(t) ==
    \/ create_transaction(t) /\ TxFrame
    \/ (\E p \in Parts : register_participant(t, p)) /\ TxFrame
    \/ prepare_transaction(t) /\ TxFrame
    \/ execute_transaction(t) /\ TxFrame
    \/ prepare_step(t) /\ TxFrame
    \/ prepare_abort_in_try(t) /\ TxFrame
    \/ prepare_abort_in_except(t) /\ TxFrame
    \/ commit_transaction(t) /\ TxFrame
    \/ commit_step(t) /\ TxFrame
    \/ abort_transaction(t) /\ TxFrame
    \/ abort_step(t) /\ TxFrame

(***************************************************************************)
(* CircuitBreaker (code/core/circuit_breaker.py).  call() runs under       *)
(* self.lock from the state check to the return, so one call is one step.  *)
(***************************************************************************)
CircuitState == {"CLOSED", "OPEN", "HALF_OPEN"}

\* what the wrapped function does: returns, raises an Exception, or raises
\* CircuitBreakerError itself
FuncOutcome == {"ok", "fail", "cbe"}

\* CircuitBreaker.__init__ with the given configuration
CBConstruct(T, R, F) ==
    /\ failure_threshold = T
    /\ recovery_timeout = R
    /\ fallback_function = F
    /\ state = "CLOSED"
    /\ failure_count = 0
    /\ last_failure_time = 0
    /\ now = 0
    /\ result = "none"
    /\ invoked = FALSE
    /\ invoked_in = "none"
    /\ failures = 0
    /\ consecutive = 0

CBInit == \E T \in 1..MaxThreshold, R \in 1..MaxTimeout, F \in BOOLEAN :
             CBConstruct(T, R, F)

\* the breaker of a specification that does not use it
CBIdle == CBConstruct(1, 1, FALSE)

\* RecoveryElapsed with a non-strict comparison (boundary fault)
RecoveryElapsed_NonStrict == now - last_failure_time >= recovery_timeout

\* line 46: time.time() - self.last_failure_time > self.recovery_timeout
RecoveryElapsed == now - last_failure_time > recovery_timeout

\* lines 44-53: the call is turned away without invoking the function
Rejected == state = "OPEN" /\ ~RecoveryElapsed

\* lines 44-48: the state in which the function is invoked
StateAtInvoke == IF state = "OPEN" THEN "HALF_OPEN" ELSE state

\* lines 59-61: state and failure_count after the function returned
StateAfterSuccess == IF StateAtInvoke = "HALF_OPEN" THEN "CLOSED" ELSE StateAtInvoke

\* CountAfterSuccess without the reset of line 61 (fault)
CountAfterSuccess_Keeps == failure_count

\* line 61: failure_count after the function returned
CountAfterSuccess == IF StateAtInvoke = "HALF_OPEN" THEN 0 ELSE failure_count

\* ThresholdReached with a strict comparison (off-by-one fault)
ThresholdReached_OffByOne == failure_count + 1 > failure_threshold

\* lines 74-77: the threshold test, on the incremented failure_count
ThresholdReached == failure_count + 1 >= failure_threshold

\* StateAfterFailure without the HALF_OPEN branch (fault: no re-opening)
StateAfterFailure_NoReopen ==
    IF StateAtInvoke = "CLOSED" /\ ThresholdReached THEN "OPEN" ELSE StateAtInvoke

\* lines 70-82: state after the function raised an Exception
StateAfterFailure ==
    IF StateAtInvoke = "CLOSED" /\ ThresholdReached THEN "OPEN"
    ELSE IF StateAtInvoke = "HALF_OPEN" THEN "OPEN"
    ELSE StateAtInvoke

\* ResultOnReject ignoring the fallback (fault: always raises)
ResultOnReject_NoFallback == "CircuitBreakerError"

\* lines 49-53: what a rejected call gives its caller
ResultOnReject == IF fallback_function THEN "fallback" ELSE "CircuitBreakerError"

\* lines 84-87: what a call gives its caller after the function raised
ResultOnFailure == IF fallback_function THEN "fallback" ELSE "Exception"

\* FailureTime keeping the time of an earlier failure (fault)
FailureTime_Stale(d) == last_failure_time

\* line 71: self.last_failure_time = time.time(), read after func took d
FailureTime(d) == now + d

\* CountedAsFailure treating CircuitBreakerError like any Exception (fault:
\* no except clause of its own)
CountedAsFailure_All(o) == o \in {"fail", "cbe"}

\* lines 65-68: except CircuitBreakerError comes first and re-raises; only
\* the other exceptions reach the handler that records a failure
CountedAsFailure(o) == o = "fail"

\* CircuitBreaker.call(func): o is what func does, v the value it returns,
\* d the time func takes
call(o, v, d) ==
    /\ now + d <= MaxTime
    /\ IF Rejected
          THEN /\ result' = ResultOnReject
               /\ invoked' = FALSE
               /\ invoked_in' = "none"
               /\ UNCHANGED <<state, failure_count, last_failure_time, now, failures,
                              consecutive>>
          ELSE /\ invoked' = TRUE
               /\ invoked_in' = StateAtInvoke
               /\ now' = now + d
               /\ CASE o = "ok" ->
                         /\ state' = StateAfterSuccess
                         /\ failure_count' = CountAfterSuccess
                         /\ failures' = IF StateAtInvoke = "HALF_OPEN" THEN 0 ELSE failures
                         /\ consecutive' = 0
                         /\ result' = v
                         /\ UNCHANGED last_failure_time
                    [] o # "ok" /\ ~CountedAsFailure(o) ->
                         /\ state' = StateAtInvoke
                         /\ result' = "CircuitBreakerError"
                         /\ UNCHANGED <<failure_count, last_failure_time, failures,
                                        consecutive>>
                    [] CountedAsFailure(o) ->
                         /\ failure_count' = failure_count + 1
                         /\ last_failure_time' = FailureTime(d)
                         /\ state' = StateAfterFailure
                         /\ failures' = failures + 1
                         /\ consecutive' = consecutive + 1
                         /\ result' = ResultOnFailure
    /\ UNCHANGED <<failure_threshold, recovery_timeout, fallback_function>>

\* reset leaving last_failure_time as it is (fault)
reset_KeepsTime ==
    /\ state' = "CLOSED"
    /\ failure_count' = 0
    /\ failures' = 0
    /\ consecutive' = 0
    /\ UNCHANGED <<failure_threshold, recovery_timeout, fallback_function, now,
                   result, invoked, invoked_in, last_failure_time>>

\* CircuitBreaker.get_state(): the dict it returns
get_state == [state |-> state, failure_count |-> failure_count,
              last_failure_time |-> last_failure_time]

\* what get_state returns for a breaker as __init__ leaves it (lines 30-32)
FreshState == [state |-> "CLOSED", failure_count |-> 0, last_failure_time |-> 0]

\* CircuitBreaker.reset()
reset ==
    /\ state' = "CLOSED"
    /\ failure_count' = 0
    /\ last_failure_time' = 0
    /\ failures' = 0
    /\ consecutive' = 0
    /\ UNCHANGED <<failure_threshold, recovery_timeout, fallback_function, now,
                   result, invoked, invoked_in>>

\* time passes between calls
Tick ==
    /\ now < MaxTime
    /\ now' = now + 1
    /\ UNCHANGED <<state, failure_count, last_failure_time, failure_threshold,
                   recovery_timeout, fallback_function, result, invoked, invoked_in,
                   failures, consecutive>>

\* a call of the breaker around a plain function
CallFunc == \E o \in FuncOutcome, d \in 0..1 : call(o, "success", d)

(***************************************************************************)
(* CircuitBreaker used by several threads.  call, reset and get_state run  *)
(* inside "with self.lock" (lines 43, 93, 102); inside the lock each is a  *)
(* sequence of reads and writes of self.state, self.failure_count and      *)
(* self.last_failure_time, between which other threads can run.            *)
(***************************************************************************)

\* Acquire without waiting for the lock (fault: no mutual exclusion)
Acquire_NoWait(t) == cb_lock' = t

\* with self.lock: entry; another thread's hold makes this one wait
Acquire(t) == cb_lock = "free" /\ cb_lock' = t

\* with self.lock: exit
Release(t) == cb_lock' = "free"

NoSnapshot == [state |-> "none", failure_count |-> 0, last_failure_time |-> 0]

CBConcIdle ==
    /\ cb_lock = "free"
    /\ cpc = [t \in Threads |-> "idle"]
    /\ cop = [t \in Threads |-> "none"]
    /\ cb_local = [t \in Threads |-> 0]
    /\ snapshot = [t \in Threads |-> NoSnapshot]
    /\ cb_ops = 0

\* a thread starts call / reset / get_state: it enters the lock
conc_begin(t, m) ==
    /\ cpc[t] = "idle"
    /\ cb_ops < MaxCBOps
    /\ cb_ops' = cb_ops + 1
    /\ Acquire(t)
    /\ cpc' = [cpc EXCEPT ![t] = m]
    /\ cop' = [cop EXCEPT ![t] = m]
    /\ snapshot' = [snapshot EXCEPT ![t] = NoSnapshot]
    /\ UNCHANGED <<cbVars, cb_local>>

\* lines 44-53: the test of the state
conc_check(t) ==
    /\ cpc[t] = "call"
    /\ IF Rejected
          THEN /\ result' = ResultOnReject
               /\ invoked' = FALSE
               /\ invoked_in' = "none"
               /\ Release(t)
               /\ cpc' = [cpc EXCEPT ![t] = "idle"]
               /\ UNCHANGED state
          ELSE /\ state' = StateAtInvoke
               /\ cpc' = [cpc EXCEPT ![t] = "invoke"]
               /\ UNCHANGED <<result, invoked, invoked_in, cb_lock>>
    /\ UNCHANGED <<failure_count, last_failure_time, failure_threshold, recovery_timeout,
                   fallback_function, now, failures, consecutive, cop, cb_local,
                   snapshot, cb_ops>>

\* lines 56-70: func is invoked; it returns, raises CircuitBreakerError, or
\* raises an Exception, in which case failure_count is read (line 70)
conc_invoke(t) ==
    /\ cpc[t] = "invoke"
    /\ invoked' = TRUE
    /\ invoked_in' = state
    /\ \E o \in FuncOutcome :
          CASE o = "ok" ->
                  /\ state' = IF state = "HALF_OPEN" THEN "CLOSED" ELSE state
                  /\ failure_count' = IF state = "HALF_OPEN" THEN 0 ELSE failure_count
                  /\ failures' = IF state = "HALF_OPEN" THEN 0 ELSE failures
                  /\ consecutive' = 0
                  /\ result' = "success"
                  /\ Release(t)
                  /\ cpc' = [cpc EXCEPT ![t] = "idle"]
                  /\ UNCHANGED cb_local
            [] o = "cbe" ->
                  /\ result' = "CircuitBreakerError"
                  /\ Release(t)
                  /\ cpc' = [cpc EXCEPT ![t] = "idle"]
                  /\ UNCHANGED <<state, failure_count, failures, consecutive, cb_local>>
            [] o = "fail" ->
                  /\ cb_local' = [cb_local EXCEPT ![t] = failure_count]
                  /\ cpc' = [cpc EXCEPT ![t] = "record"]
                  /\ UNCHANGED <<state, failure_count, failures, consecutive, result,
                                 cb_lock>>
    /\ UNCHANGED <<last_failure_time, failure_threshold, recovery_timeout,
                   fallback_function, now, cop, snapshot, cb_ops>>

\* lines 70-87: failure_count is written, then last_failure_time and the state
conc_record(t) ==
    /\ cpc[t] = "record"
    /\ failure_count' = cb_local[t] + 1
    /\ last_failure_time' = now
    /\ state' = IF state = "CLOSED" /\ cb_local[t] + 1 >= failure_threshold THEN "OPEN"
                ELSE IF state = "HALF_OPEN" THEN "OPEN"
                ELSE state
    /\ failures' = failures + 1
    /\ consecutive' = consecutive + 1
    /\ result' = ResultOnFailure
    /\ Release(t)
    /\ cpc' = [cpc EXCEPT ![t] = "idle"]
    /\ UNCHANGED <<failure_threshold, recovery_timeout, fallback_function, now, invoked,
                   invoked_in, cop, cb_local, snapshot, cb_ops>>

\* lines 94-96: reset inside the lock
conc_reset(t) ==
    /\ cpc[t] = "reset"
    /\ reset
    /\ Release(t)
    /\ cpc' = [cpc EXCEPT ![t] = "idle"]
    /\ UNCHANGED <<cop, cb_local, snapshot, cb_ops>>

\* lines 103-107: get_state reads the three fields one after the other
conc_get_state(t) ==
    /\ cpc[t] \in {"get_state", "get_count", "get_time"}
    /\ CASE cpc[t] = "get_state" ->
                /\ snapshot' = [snapshot EXCEPT ![t].state = state]
                /\ cpc' = [cpc EXCEPT ![t] = "get_count"]
                /\ UNCHANGED cb_lock
         [] cpc[t] = "get_count" ->
                /\ snapshot' = [snapshot EXCEPT ![t].failure_count = failure_count]
                /\ cpc' = [cpc EXCEPT ![t] = "get_time"]
                /\ UNCHANGED cb_lock
         [] cpc[t] = "get_time" ->
                /\ snapshot' = [snapshot EXCEPT ![t].last_failure_time = last_failure_time]
                /\ cpc' = [cpc EXCEPT ![t] = "idle"]
                /\ Release(t)
    /\ UNCHANGED <<cbVars, cop, cb_local, cb_ops>>

\* time passes, whoever holds the lock
ConcTick == Tick /\ UNCHANGED cbConcVars

(***************************************************************************)
(* retry (code/core/retry.py) and with_fallback (code/core/fallback.py),   *)
(* and the stack of tests/integration/test_error_handling_integration.py:  *)
(*     @circuit_breaker  @retry(max_attempts=n, retry_exceptions=E)        *)
(*     @with_fallback(DefaultValueFallback("fallback_result"))  def op     *)
(* What a callable does is a record: it returns a value or raises an       *)
(* exception of some type.                                                 *)
(***************************************************************************)
Returns(v) == [kind |-> "return", value |-> v]

Raises(e) == [kind |-> "raise", value |-> e]

\* one invocation of the operation: it returns, raises an exception listed
\* in retry_exceptions, or raises another exception
OpOutcome == {"ok", "retryable", "other"}

\* the k-th invocation: an exception is known by its type and by the
\* invocation that raised it
Op(o, k) == IF o = "ok" THEN Returns("success")
                       ELSE Raises([type |-> o, attempt |-> k])

\* no call was made yet
NoOutcome == [kind |-> "none", value |-> "none"]

\* DefaultValueFallback.execute: the configured value, unconditionally
DefaultValueFallback_execute == Returns("fallback_result")

\* with_fallback using the strategy even when func returned (fault)
with_fallback_Always(r, fb) == fb

\* with_fallback's wrapper: r is what func did, fb what the strategy does
with_fallback(r, fb) == IF r.kind = "return" THEN r ELSE fb

(***************************************************************************)
(* ChainedFallback and with_fallback on their own (code/core/fallback.py). *)
(* A value or an exception is known by who produced it: 0 is the wrapped   *)
(* function, k >= 1 the k-th strategy of the chain.                        *)
(***************************************************************************)

\* the wrapped function
Func == 0

\* the Exception("All fallback strategies failed") of line 70
AllFailed == -1

\* last_exception = None (line 59)
NoException == -2

\* a strategy's execute returns a value or raises an Exception
StrategyOutcome == {"return", "raise"}

\* strategy.execute of the k-th strategy of the chain
strategy_execute(strats, k) == IF strats[k] = "return" THEN Returns(k) ELSE Raises(k)

\* ChainExhausted returning None (fault: the failure is swallowed)
ChainExhausted_ReturnsNone(last) == Returns(NoException)

\* lines 67-70: every strategy raised (or there was none)
ChainExhausted(last) == IF last # NoException THEN Raises(last) ELSE Raises(AllFailed)

\* lines 61-70: the for-loop of ChainedFallback.execute from strategy k on;
\* tried lists the strategies whose execute was called, in call order
RECURSIVE chained_loop(_, _, _, _)
chained_loop(strats, k, last, tried) ==
    IF k > Len(strats)
       THEN [res |-> ChainExhausted(last), tried |-> tried]
       ELSE LET r == strategy_execute(strats, k) IN
            IF r.kind = "return"
               THEN [res |-> r, tried |-> Append(tried, k)]
               ELSE chained_loop(strats, k + 1, r.value, Append(tried, k))

\* ChainedFallback(strats).execute(...)
ChainedFallback_execute(strats) == chained_loop(strats, 1, NoException, <<>>)

\* the calls of strategy.execute made by the chain, each with arguments a
StrategyCalls(tried, a) == [i \in 1..Len(tried) |-> [callee |-> tried[i], args |-> a]]

\* ChainedFallback(strategies), not called yet
FallbackConstruct(strats) ==
    /\ strategies = strats
    /\ fb_op = "none"
    /\ fb_func = "none"
    /\ fb_args = 0
    /\ fb_calls = <<>>
    /\ fb_outcome = NoOutcome

FallbackInit ==
    \E n \in 0..MaxStrategies : \E strats \in [1..n -> StrategyOutcome] :
       FallbackConstruct(strats)

\* the fallback of a specification that does not use it
FallbackIdle == FallbackConstruct(<<>>)

\* chained.execute(a)
chained_execute(a) ==
    LET c == ChainedFallback_execute(strategies) IN
    /\ fb_op' = "execute"
    /\ fb_func' = "none"
    /\ fb_args' = a
    /\ fb_calls' = StrategyCalls(c.tried, a)
    /\ fb_outcome' = c.res
    /\ UNCHANGED strategies

\* with_fallback(chained)(func)(a): o is what func does
wrapper(o, a) ==
    LET r == IF o = "ok" THEN Returns(Func) ELSE Raises(Func)
        c == ChainedFallback_execute(strategies)
    IN
    /\ fb_op' = "wrapper"
    /\ fb_func' = o
    /\ fb_args' = a
    /\ fb_calls' = <<[callee |-> Func, args |-> a]>> \o
                      (IF r.kind = "return" THEN <<>> ELSE StrategyCalls(c.tried, a))
    /\ fb_outcome' = with_fallback(r, c.res)
    /\ UNCHANGED strategies

\* the defaults of retry's parameters (lines 10-13)
DefaultBaseDelay == 1

DefaultMaxDelay == 60

DefaultBackoffFactor == 2

DefaultJitter == TRUE

\* random.random() is in [0, 1): the factor 0.5 + random.random() of line 38,
\* in hundredths (the two ends of the range)
JitterPercent == {50, 149}

RECURSIVE Pow(_, _)
Pow(b, e) == IF e = 0 THEN 1 ELSE b * Pow(b, e - 1)

Min(a, b) == IF a <= b THEN a ELSE b

\* sleep_time without the cap of max_delay (fault)
sleep_time_Uncapped(attempt) == base_delay * Pow(backoff_factor, attempt)

\* line 34: min(delay * (backoff_factor**attempt), max_delay)
sleep_time(attempt) == Min(base_delay * Pow(backoff_factor, attempt), max_delay)

\* lines 37-38, in hundredths of the time unit; rnd[k] is the random factor
\* drawn for the k-th sleep
Jittered(t, rnd, k) == IF jitter THEN t * rnd[k] ELSE t * 100

\* Retryable catching every exception (fault: no classification)
Retryable_All(r) == TRUE

\* line 28: except retry_exceptions
Retryable(r) == r.value.type = "retryable"

\* LoopEnds one attempt early (fault: range(max_attempts - 1))
LoopEnds_Early(n, attempt) == attempt >= n - 1

\* line 25: range(max_attempts) is exhausted
LoopEnds(n, attempt) == attempt >= n

\* SleepsAfter without the test of line 32 (fault: sleeps after the last attempt)
SleepsAfter_Always(n, attempt) == TRUE

\* line 32: sleep unless this was the last attempt
SleepsAfter(n, attempt) == attempt < n - 1

\* the for-loop of retry's wrapper from attempt (0-based) on; inner[k] is what
\* the k-th invocation of func does, last is last_exception, rnd[k] the
\* random factor drawn after the k-th invocation (every failed invocation
\* before the last sleep is followed by a sleep)
RECURSIVE retry_loop(_, _, _, _, _, _)
retry_loop(inner, n, attempt, last, slept, rnd) ==
    IF LoopEnds(n, attempt)
       THEN [res |-> Raises(last), invocations |-> attempt, sleeps |-> slept]
       ELSE LET r == inner[attempt + 1] IN
            IF r.kind = "return" \/ ~Retryable(r)
               THEN [res |-> r, invocations |-> attempt + 1, sleeps |-> slept]
               ELSE retry_loop(inner, n, attempt + 1, r.value,
                               IF SleepsAfter(n, attempt)
                                  THEN Append(slept,
                                          [after |-> attempt + 1,
                                           time |-> Jittered(sleep_time(attempt),
                                                             rnd, attempt + 1)])
                                  ELSE slept,
                               rnd)

\* retry(max_attempts=n)(func): last_exception starts as None
retry(inner, n, rnd) == retry_loop(inner, n, 0, "None", <<>>, rnd)

\* line 38 is reached once per sleep, and only if jitter is set: the number
\* of calls of random.random() in one call of the wrapper
RandomDraws(inner, n) ==
    IF jitter THEN Len(retry(inner, n, [k \in 1..n |-> 100]).sleeps) ELSE 0

\* the function under the retry decorator of the integration test
protected(outs) ==
    [k \in 1..Len(outs) |-> with_fallback(Op(outs[k], k), DefaultValueFallback_execute)]

\* the decorated function of the integration test, called once
unstable_service(outs, rnd) == retry(protected(outs), max_attempts, rnd)

\* an operation under nothing but retry
bare(outs) == [k \in 1..Len(outs) |-> Op(outs[k], k)]

\* retry(max_attempts=n, base_delay=b, max_delay=m, backoff_factor=f, jitter=j)
RetryConstruct(n, b, m, f, j) ==
    /\ max_attempts = n
    /\ base_delay = b
    /\ max_delay = m
    /\ backoff_factor = f
    /\ jitter = j
    /\ outs_in = <<>>
    /\ invocations = 0
    /\ sleeps = <<>>
    /\ outcome = NoOutcome

\* @retry(max_attempts=n, retry_exceptions=RetryableError) of the integration test
StackConstruct(n) ==
    RetryConstruct(n, DefaultBaseDelay, DefaultMaxDelay, DefaultBackoffFactor,
                   DefaultJitter)

StackInit == \E n \in 1..MaxAttempts : StackConstruct(n)

\* the stack of a specification that does not use it
StackIdle == StackConstruct(1)

RetryInit ==
    \E n \in 1..MaxAttempts, b \in 1..MaxBaseDelay, m \in 1..MaxMaxDelay,
       f \in 1..MaxBackoffFactor, j \in BOOLEAN : RetryConstruct(n, b, m, f, j)

\* one call of retry(...)(op), op not wrapped in anything else; the wrapper
\* keeps nothing between calls (last_exception and delay are locals, lines
\* 22-23), so each configuration is called once
retry_call(outs, rnd) ==
    LET r == retry(bare(outs), max_attempts, rnd) IN
    /\ outcome = NoOutcome
    /\ outs_in' = outs
    /\ invocations' = r.invocations
    /\ sleeps' = r.sleeps
    /\ outcome' = r.res
    /\ UNCHANGED <<max_attempts, base_delay, max_delay, backoff_factor, jitter>>

RetryCall ==
    \E outs \in [1..max_attempts -> OpOutcome] :
       \E rnd \in [1..RandomDraws(bare(outs), max_attempts) -> JitterPercent] :
          retry_call(outs, rnd)

\* one call of the decorated function through the breaker
stack_call(outs, d, rnd) ==
    LET r == unstable_service(outs, rnd) IN
    /\ call(IF r.res.kind = "return" THEN "ok" ELSE "fail", r.res.value, d)
    /\ outs_in' = outs
    /\ invocations' = IF Rejected THEN 0 ELSE r.invocations
    /\ sleeps' = IF Rejected THEN <<>> ELSE r.sleeps
    /\ UNCHANGED <<max_attempts, base_delay, max_delay, backoff_factor, jitter, outcome>>

StackCall ==
    \E outs \in [1..max_attempts -> OpOutcome], d \in 0..1 :
       \E rnd \in [1..RandomDraws(protected(outs), max_attempts) -> JitterPercent] :
          stack_call(outs, d, rnd)

(***************************************************************************)
(* Saga orchestrator (code/core/saga_orchestrator.py).  execute_saga runs  *)
(* as one background task; every remote interaction (service lookup,       *)
(* action call, compensation call) is a step of its own.                   *)
(***************************************************************************)
SagaState == {"STARTED", "EXECUTING", "COMPENSATING", "COMPLETED", "FAILED"}

StepState == {"PENDING", "EXECUTING", "EXECUTED", "COMPENSATING", "COMPENSATED", "FAILED"}

\* get_service_url: an address, or None (every exception is turned into None)
LookupOutcome == {"url", "None"}

\* requests.post: a 200 response, another status, or an exception
PostOutcome == {"200", "other", "raise"}

\* response.json(): the body parses, or raises
JsonOutcome == {"json", "raise"}

\* SagaStep.id of step k: f"{saga_id}-step-{k}"
StepId(k) == k

\* SagaStep.payload of step k, as given to create_saga
Payload(k) == 10 + k

\* the step the code calls saga.steps[k]
SetStep(k, st) == [steps EXCEPT ![k + 1] = st]

\* no get_saga request has been answered yet
NotObserved == [state |-> "none", steps |-> <<>>, results |-> <<>>, current_step_index |-> 0]

\* the module-level sagas = {}
SagaInit ==
    /\ saga_state = "NONE"
    /\ steps = <<>>
    /\ step_result = <<>>
    /\ current_step_index = 0
    /\ spc = "none"
    /\ comp_i = 0
    /\ remote_calls = <<>>
    /\ failed_at = -1
    /\ unresolved = {}
    /\ observed = NotObserved

\* execute_saga is a coroutine that the event loop runs after create_saga's
\* response (line 91); its remote calls are blocking requests.get /
\* requests.post calls and its only await is of compensate_saga, which never
\* suspends: from line 136 to its return it holds the event-loop thread.
\* The loop can run a request handler only outside of it.
EventLoopFree == spc \in {"none", "queued", "done", "raised"}

\* create_saga with n step specifications; execute_saga is queued
create_saga(n) ==
    /\ EventLoopFree
    /\ saga_state = "NONE"
    /\ saga_state' = "STARTED"
    /\ steps' = [k \in 1..n |-> "PENDING"]
    /\ step_result' = [k \in 1..n |-> "None"]
    /\ current_step_index' = 0
    /\ spc' = "queued"
    /\ UNCHANGED <<comp_i, remote_calls, failed_at, unresolved,
                   observed>>

\* execute_saga, lines 136-137
execute_saga ==
    /\ spc = "queued"
    /\ saga_state' = "EXECUTING"
    /\ spc' = "while"
    /\ UNCHANGED <<steps, step_result, current_step_index, comp_i, remote_calls,
                   failed_at, unresolved,
                   observed>>

\* lines 139-141 and 172-174: the while test; mark the step, or complete
while_test ==
    /\ spc = "while"
    /\ IF current_step_index < Len(steps)
          THEN /\ steps' = SetStep(current_step_index, "EXECUTING")
               /\ spc' = "lookup"
               /\ UNCHANGED saga_state
          ELSE /\ saga_state' = "COMPLETED"
               /\ spc' = "done"
               /\ UNCHANGED steps
    /\ UNCHANGED <<step_result, current_step_index, comp_i, remote_calls, failed_at,
                   unresolved, observed>>

\* StepFailed moving the cursor past the failed step (fault)
StepFailed_Advances ==
    /\ steps' = SetStep(current_step_index, "FAILED")
    /\ failed_at' = current_step_index
    /\ spc' = "compensate"
    /\ current_step_index' = current_step_index + 1

\* lines 147-149, 161-163, 166-168: the step failed, compensate_saga is called
\* with the cursor where it is
StepFailed ==
    /\ steps' = SetStep(current_step_index, "FAILED")
    /\ failed_at' = current_step_index
    /\ spc' = "compensate"
    /\ UNCHANGED current_step_index

\* ForwardTryCatches without the try of line 143 (fault)
ForwardTryCatches_Missing == FALSE

\* lines 143 and 164: requests.post and response.json() of the action are
\* inside try ... except Exception
ForwardTryCatches == TRUE

\* CompTryCatches without the try of line 189 (fault)
CompTryCatches_Missing == FALSE

\* lines 189 and 206: requests.post of the compensation is inside
\* try ... except Exception
CompTryCatches == TRUE

\* an exception that nothing catches ends the background task
Escapes == spc' = "raised"

\* lines 145-149: the service lookup of the action
action_lookup ==
    /\ spc = "lookup"
    /\ \E o \in LookupOutcome :
          IF o = "None"
             THEN StepFailed
             ELSE /\ spc' = "post"
                  /\ UNCHANGED <<steps, failed_at, current_step_index>>
    /\ UNCHANGED <<saga_state, step_result, comp_i, remote_calls, unresolved, observed>>

\* lines 152-157 and 160-168: the action call
action_post ==
    /\ spc = "post"
    /\ remote_calls' = Append(remote_calls,
            [kind |-> "action", step_id |-> StepId(current_step_index),
             payload |-> Payload(current_step_index)])
    /\ \E o \in PostOutcome :
          IF o = "200"
             THEN /\ steps' = SetStep(current_step_index, "EXECUTED")
                  /\ spc' = "store"
                  /\ UNCHANGED <<failed_at, current_step_index>>
             ELSE IF o = "raise" /\ ~ForwardTryCatches
                     THEN Escapes /\ UNCHANGED <<steps, failed_at, current_step_index>>
                     ELSE StepFailed
    /\ UNCHANGED <<saga_state, step_result, comp_i, unresolved, observed>>

\* CursorAfterStep with the cursor left on the executed step (fault)
CursorAfterStep_Stays == current_step_index

\* CursorAfterStep with the cursor skipping a step (fault)
CursorAfterStep_Skips == current_step_index + 2

\* line 159: the cursor after a fully executed step
CursorAfterStep == current_step_index + 1

\* lines 158-159 and 164-168: store the response body and advance the cursor
store_result ==
    /\ spc = "store"
    /\ \E o \in JsonOutcome :
          IF o = "json"
             THEN /\ step_result' = [step_result EXCEPT ![current_step_index + 1] = "json"]
                  /\ current_step_index' = CursorAfterStep
                  /\ spc' = "while"
                  /\ UNCHANGED <<steps, failed_at>>
             ELSE /\ IF ForwardTryCatches
                        THEN StepFailed
                        ELSE Escapes /\ UNCHANGED <<steps, failed_at, current_step_index>>
                  /\ UNCHANGED step_result
    /\ UNCHANGED <<saga_state, comp_i, remote_calls, unresolved, observed>>

\* CompStart with the walk missing the last executed step (off-by-one fault)
CompStart_SkipsLast == current_step_index - 2

\* line 184: range(saga.current_step_index - 1, -1, -1) starts here
CompStart == current_step_index - 1

\* compensate_saga without the assignment of line 182 (fault)
compensate_saga_NoState ==
    /\ spc = "compensate"
    /\ comp_i' = CompStart
    /\ spc' = "comp_for"
    /\ UNCHANGED <<saga_state, steps, step_result, current_step_index, remote_calls,
                   failed_at, unresolved,
                   observed>>

\* compensate_saga, lines 181-184
compensate_saga ==
    /\ spc = "compensate"
    /\ saga_state' = "COMPENSATING"
    /\ comp_i' = CompStart
    /\ spc' = "comp_for"
    /\ UNCHANGED <<steps, step_result, current_step_index, remote_calls, failed_at,
                   unresolved, observed>>

\* lines 184-187 and 212-213: the for-loop head; only Executed steps are compensated
comp_for ==
    /\ spc = "comp_for"
    /\ IF comp_i < 0
          THEN /\ saga_state' = "FAILED"
               /\ spc' = "done"
               /\ UNCHANGED <<steps, comp_i>>
          ELSE IF steps[comp_i + 1] = "EXECUTED"
                  THEN /\ steps' = SetStep(comp_i, "COMPENSATING")
                       /\ spc' = "comp_lookup"
                       /\ UNCHANGED <<saga_state, comp_i>>
                  ELSE /\ comp_i' = comp_i - 1
                       /\ UNCHANGED <<saga_state, steps, spc>>
    /\ UNCHANGED <<step_result, current_step_index, remote_calls, failed_at, unresolved,
                   observed>>

\* lines 191-194: the service lookup of the compensation
comp_lookup ==
    /\ spc = "comp_lookup"
    /\ \E o \in LookupOutcome :
          IF o = "None"
             THEN /\ steps' = SetStep(comp_i, "FAILED")
                  /\ unresolved' = unresolved \cup {comp_i}
                  /\ comp_i' = comp_i - 1
                  /\ spc' = "comp_for"
             ELSE /\ spc' = "comp_post"
                  /\ UNCHANGED <<steps, unresolved, comp_i>>
    /\ UNCHANGED <<saga_state, step_result, current_step_index, remote_calls, failed_at,
                   observed>>

\* comp_post ending the walk at a failed compensation (fault)
comp_post_StopsOnFailure ==
    /\ spc = "comp_post"
    /\ remote_calls' = Append(remote_calls,
            [kind |-> "compensation", step_id |-> StepId(comp_i),
             payload |-> Payload(comp_i)])
    /\ \E o \in PostOutcome :
          /\ steps' = SetStep(comp_i, IF o = "200" THEN "COMPENSATED" ELSE "FAILED")
          /\ comp_i' = IF o = "200" THEN comp_i - 1 ELSE -1
    /\ spc' = "comp_for"
    /\ UNCHANGED <<saga_state, step_result, current_step_index, failed_at, unresolved,
                   observed>>

\* lines 197-208: the compensation call
comp_post ==
    /\ spc = "comp_post"
    /\ remote_calls' = Append(remote_calls,
            [kind |-> "compensation", step_id |-> StepId(comp_i),
             payload |-> Payload(comp_i)])
    /\ \E o \in PostOutcome :
          IF o = "raise" /\ ~CompTryCatches
             THEN Escapes /\ UNCHANGED <<steps, comp_i>>
             ELSE /\ steps' = SetStep(comp_i, IF o = "200" THEN "COMPENSATED" ELSE "FAILED")
                  /\ comp_i' = comp_i - 1
                  /\ spc' = "comp_for"
    /\ UNCHANGED <<saga_state, step_result, current_step_index, failed_at, unresolved,
                   observed>>

(***************************************************************************)
\* get_saga (lines 96-121), an async handler run by the event loop
get_saga ==
    /\ EventLoopFree
    /\ observed' = IF saga_state = "NONE"
                      THEN [state |-> "404", steps |-> <<>>, results |-> <<>>,
                            current_step_index |-> 0]
                      ELSE [state |-> saga_state, steps |-> steps, results |-> step_result,
                            current_step_index |-> current_step_index]
    /\ UNCHANGED <<saga_state, steps, step_result, current_step_index, spc, comp_i,
                   remote_calls, failed_at, unresolved>>

(* SpecSaga: one saga of up to MaxSteps steps and its background task.     *)
(***************************************************************************)
InitSaga == SagaInit /\ TxInit /\ CBIdle /\ StackIdle /\ FallbackIdle /\ CBConcIdle

SagaFrame == UNCHANGED <<cbConcVars, txVars, cbVars, stackVars, fbVars>>

NextSaga ==
    \/ (\E n \in 0..MaxSteps : create_saga(n)) /\ SagaFrame
    \/ execute_saga /\ SagaFrame
    \/ while_test /\ SagaFrame
    \/ action_lookup /\ SagaFrame
    \/ action_post /\ SagaFrame
    \/ store_result /\ SagaFrame
    \/ compensate_saga /\ SagaFrame
    \/ comp_for /\ SagaFrame
    \/ comp_lookup /\ SagaFrame
    \/ comp_post /\ SagaFrame
    \/ get_saga /\ SagaFrame

SpecSaga == InitSaga /\ [][NextSaga]_vars

\* the steps of the background task: once queued by create_saga (line 91) it
\* is run, and each of its remote interactions returns or raises
SagaTask ==
    \/ execute_saga
    \/ while_test
    \/ action_lookup
    \/ action_post
    \/ store_result
    \/ compensate_saga
    \/ comp_for
    \/ comp_lookup
    \/ comp_post

\* SpecSaga with a background task that is not held up for ever
SpecSagaLive == SpecSaga /\ WF_vars(SagaTask /\ SagaFrame)

(***************************************************************************)
(* SpecCB: one breaker, any configuration, calls, resets and time.         *)
(***************************************************************************)
InitCB == CBInit /\ TxInit /\ StackIdle /\ SagaInit /\ FallbackIdle /\ CBConcIdle

\* the variables a breaker step leaves alone
CBFrame == UNCHANGED <<cbConcVars, txVars, stackVars, fbVars, sagaVars>>

NextCB ==
    \/ CallFunc /\ CBFrame
    \/ reset /\ CBFrame
    \/ Tick /\ CBFrame

SpecCB == InitCB /\ [][NextCB]_vars

(***************************************************************************)
(* SpecStack: the decorated function called any number of times.           *)
(***************************************************************************)
InitStack == CBInit /\ StackInit /\ TxInit /\ SagaInit /\ FallbackIdle /\ CBConcIdle

StackFrame == UNCHANGED <<cbConcVars, txVars, fbVars, sagaVars>>

NextStack ==
    \/ StackCall /\ StackFrame
    \/ reset /\ UNCHANGED stackVars /\ StackFrame
    \/ Tick /\ UNCHANGED stackVars /\ StackFrame

SpecStack == InitStack /\ [][NextStack]_vars

(***************************************************************************)
(* The retry wrapper alone, around an operation that is not wrapped in     *)
(* anything else.                                                          *)
(***************************************************************************)
InitRetry == RetryInit /\ CBIdle /\ TxInit /\ SagaInit /\ FallbackIdle /\ CBConcIdle

RetryFrame == UNCHANGED <<cbConcVars, txVars, cbVars, fbVars, sagaVars>>

NextRetry ==
    \/ RetryCall /\ RetryFrame

SpecRetry == InitRetry /\ [][NextRetry]_vars

(***************************************************************************)
(* One breaker, every thread calling call, reset and get_state.            *)
(***************************************************************************)
InitCBConc == CBInit /\ CBConcIdle /\ TxInit /\ StackIdle /\ FallbackIdle /\ SagaInit

CBConcFrame == UNCHANGED <<txVars, stackVars, fbVars, sagaVars>>

NextCBConc ==
    \/ (\E t \in Threads : conc_begin(t, "call")) /\ CBConcFrame
    \/ (\E t \in Threads : conc_begin(t, "reset")) /\ CBConcFrame
    \/ (\E t \in Threads : conc_begin(t, "get_state")) /\ CBConcFrame
    \/ (\E t \in Threads : conc_check(t)) /\ CBConcFrame
    \/ (\E t \in Threads : conc_invoke(t)) /\ CBConcFrame
    \/ (\E t \in Threads : conc_record(t)) /\ CBConcFrame
    \/ (\E t \in Threads : conc_reset(t)) /\ CBConcFrame
    \/ (\E t \in Threads : conc_get_state(t)) /\ CBConcFrame
    \/ ConcTick /\ CBConcFrame

SpecCBConc == InitCBConc /\ [][NextCBConc]_vars

(***************************************************************************)
(* A ChainedFallback called directly, and as the strategy of with_fallback *)
(* around a function.                                                      *)
(***************************************************************************)
InitFallback == FallbackInit /\ StackIdle /\ CBIdle /\ TxInit /\ SagaInit /\ CBConcIdle

FallbackFrame == UNCHANGED <<cbConcVars, txVars, cbVars, stackVars, sagaVars>>

NextFallback ==
    \/ (\E a \in 1..MaxArg : chained_execute(a)) /\ FallbackFrame
    \/ (\E o \in OpOutcome, a \in 1..MaxArg : wrapper(o, a)) /\ FallbackFrame

SpecFallback == InitFallback /\ [][NextFallback]_vars

(***************************************************************************)
(* SpecTx: one caller, any sequence of coordinator operations.             *)
(***************************************************************************)
InitTx == TxInit /\ CBIdle /\ StackIdle /\ SagaInit /\ FallbackIdle /\ CBConcIdle

NextTx == TxStep(MainThread)

SpecTx == InitTx /\ [][NextTx]_vars

(***************************************************************************)
(* SpecTxConc: two threads call the coordinator on the same transaction    *)
(* id.  TransactionCoordinator holds no lock, so the threads interleave    *)
(* between any two participant calls.                                      *)
(***************************************************************************)
InitTxConc == TxInit /\ CBIdle /\ StackIdle /\ SagaInit /\ FallbackIdle /\ CBConcIdle

NextTxConc == \E t \in Threads : TxStep(t)

SpecTxConc == InitTxConc /\ [][NextTxConc]_vars

(***************************************************************************)
(* Claims about the TransactionCoordinator.                                *)
(***************************************************************************)

\* C1 (as claimed): two-phase-commit atomicity - it is never the case that some
\* participant of the transaction has been sent commit(id) while some
\* participant of the same transaction has been sent abort(id).
C1_Atomicity == ~(sentCommit # {} /\ sentAbort # {})

\* The status changes the transaction state machine allows (creation included)
AllowedStatusChange ==
    { <<"NONE", "CREATED">>, <<"CREATED", "PREPARED">>, <<"CREATED", "ABORTED">>,
      <<"PREPARED", "COMMITTED">>, <<"PREPARED", "ABORTED">> }

\* C2 (as claimed): the status only changes Created->Prepared, Created->Aborted,
\* Prepared->Committed or Prepared->Aborted; once Committed or Aborted no
\* coordinator operation changes it again.
C2_StatusMonotonic ==
    [][status' # status => <<status, status'>> \in AllowedStatusChange]_vars

\* thread t leaves prepare_transaction in this step after a prepare that failed
PrepareFailedReturns(t) ==
    /\ pc[t] \in {"prepare", "abort_in_try", "abort_in_except"}
    /\ pc'[t] = "idle"
    /\ failedAt'[t] # 0

\* position of participant p in the registration order
PosOf(p) == CHOOSE k \in 1..Len(participants) : participants[k] = p

\* C3 (as claimed): when a participant's prepare returns false or raises, the
\* coordinator stops preparing (later participants are not asked), calls
\* abort(id) exactly once on every registered participant, sets the status to
\* Aborted and returns false.
C3_PrepareFailureAbortsAll ==
    [][\A t \in Threads : PrepareFailedReturns(t) =>
          /\ ret'[t] = "False"
          /\ status' = "ABORTED"
          /\ \A p \in Range(participants) :
                /\ calls'[t]["abort"][p] = 1
                /\ (PosOf(p) > PosOf(failedAt'[t]) => calls'[t]["prepare"][p] = 0)
      ]_vars

\* C9 (as claimed): operations on one transaction id are serialized - prepare,
\* commit and abort of the transaction are never in progress at the same time.
C9_Serialized == Cardinality({t \in Threads : pc[t] # "idle"}) <= 1

\* C10 (as claimed): no exception raised by a participant's prepare, commit or
\* abort ever propagates out of prepareTransaction, commitTransaction,
\* abortTransaction or executeTransaction.
C10_NoExceptionEscapes == \A t \in Threads : ret[t] # "raised"

(***************************************************************************)
(* Claims about the CircuitBreaker.                                        *)
(***************************************************************************)

\* the step is a call() that invoked the function, which raised an Exception
FailedCall == CallFunc /\ failures' = failures + 1

\* the step is a call() made while Open, before the recovery timeout elapsed
CallBeforeRecovery ==
    CallFunc /\ state = "OPEN" /\ now - last_failure_time <= recovery_timeout

\* C4: from a Closed breaker without fallback, the breaker stays Closed with
\* failure_count equal to the number of failed calls while fewer than
\* failure_threshold calls have failed; the failure that brings the count to
\* the threshold (and every later one) leaves it Open; and a call made while
\* Open before recovery_timeout has elapsed is rejected with
\* CircuitBreakerError without invoking the operation.
C4_ThresholdOpens ==
    /\ [](~fallback_function =>
            /\ (failures < failure_threshold => state = "CLOSED")
            /\ (state = "CLOSED" =>
                   failure_count = failures /\ failures < failure_threshold))
    /\ [][(~fallback_function /\ FailedCall /\ failures' >= failure_threshold) =>
             (state' = "OPEN" /\ last_failure_time' = now')]_vars
    /\ [][(~fallback_function /\ CallBeforeRecovery) =>
             (~invoked' /\ result' = "CircuitBreakerError" /\ state' = "OPEN"
                /\ failure_count' = failure_count)]_vars

\* C4 witness: a breaker with threshold >= 2 has opened after that many
\* failures and has just rejected a call
C4_Witness ==
    /\ ~fallback_function
    /\ failure_threshold >= 2
    /\ state = "OPEN"
    /\ failures >= failure_threshold
    /\ ~invoked
    /\ result = "CircuitBreakerError"

\* C5 (as claimed): a successful call through a Closed breaker whose
\* failure_count is > 0 resets failure_count to 0, so a Closed breaker only
\* opens when failure_threshold failures occurred in a row.
C5_SuccessResetsCount ==
    /\ [][(CallFunc /\ state = "CLOSED" /\ failure_count > 0 /\ invoked'
             /\ result' = "success") => failure_count' = 0]_vars
    /\ [][(state = "CLOSED" /\ state' = "OPEN") =>
             consecutive' >= failure_threshold]_vars

(***************************************************************************)
(* Claims about the stacked wrappers.                                      *)
(***************************************************************************)

\* number of invocations of op that fail before the first one that succeeds
RECURSIVE LeadingFailures(_)
LeadingFailures(outs) ==
    IF outs = <<>> \/ Head(outs) = "ok" THEN 0 ELSE 1 + LeadingFailures(Tail(outs))

\* the last call went through the breaker to an operation that only fails
\* with retryable errors
RetryableCall ==
    /\ outs_in # <<>>
    /\ invoked
    /\ \A k \in 1..Len(outs_in) : outs_in[k] \in {"ok", "retryable"}

\* C8 (as claimed): in breaker(retry(with_fallback(op))) an operation that
\* fails on fewer than max_attempts attempts and then succeeds is re-invoked
\* and the caller receives its success value; the fallback value is returned
\* only when every one of the max_attempts invocations failed.
C8_FallbackAfterRetries ==
    RetryableCall =>
       /\ (LeadingFailures(outs_in) < max_attempts =>
              /\ result = "success"
              /\ invocations = LeadingFailures(outs_in) + 1)
       /\ (result = "fallback_result" =>
              /\ LeadingFailures(outs_in) = max_attempts
              /\ invocations = max_attempts)

(***************************************************************************)
(* Claims about the saga orchestrator.                                     *)
(***************************************************************************)

\* the compensation calls made for step k, in order
CompCalls(k) ==
    SelectSeq(remote_calls, LAMBDA c : c.kind = "compensation" /\ c.step_id = StepId(k))

\* the compensation call step k must receive: its id and original payload
CompRequest(k) == [kind |-> "compensation", step_id |-> StepId(k), payload |-> Payload(k)]

\* all steps executed: no compensation call, Completed, cursor at n
CompletedCleanly ==
    /\ saga_state = "COMPLETED"
    /\ current_step_index = Len(steps)
    /\ \A k \in 1..Len(steps) : steps[k] = "EXECUTED"
    /\ \A j \in 1..Len(remote_calls) : remote_calls[j].kind = "action"

\* C6 (as claimed): when the background task has finished - if the action of
\* step k failed, the compensation endpoint was invoked exactly once for each
\* of steps 0..k-1 (with its id and payload) and never for steps k..n-1, and
\* the saga is Failed; if every action succeeded, no compensation endpoint was
\* invoked and the saga is Completed with the cursor at n and every step
\* Executed.
C6_CompensatesEachExecutedStepOnce ==
    spc = "done" =>
       IF failed_at >= 0
          THEN /\ saga_state = "FAILED"
               /\ \A k \in 0..(Len(steps) - 1) :
                     CompCalls(k) = IF k < failed_at THEN <<CompRequest(k)>> ELSE <<>>
          ELSE CompletedCleanly

\* C6 (amended): as C6, but a step among 0..k-1 whose service address does not
\* resolve at compensation time receives no compensation call (it is marked
\* Failed); every other step among 0..k-1 receives exactly one.
C6_CompensatesEachResolvedStepOnce ==
    spc = "done" =>
       IF failed_at >= 0
          THEN /\ saga_state = "FAILED"
               /\ \A k \in 0..(Len(steps) - 1) :
                     CompCalls(k) = IF k < failed_at /\ k \notin unresolved
                                       THEN <<CompRequest(k)>> ELSE <<>>
               /\ \A k \in unresolved : k < failed_at /\ steps[k + 1] = "FAILED"
          ELSE CompletedCleanly

\* C6 witness: a 3-step saga whose last action failed has finished, one of the
\* two executed steps was compensated and the other found no address
C6_Witness ==
    /\ spc = "done"
    /\ Len(steps) = 3
    /\ failed_at = 2
    /\ unresolved = {1}
    /\ CompCalls(0) = <<CompRequest(0)>>

\* C7 (as claimed): every step before the cursor is Executed (or later
\* Compensating / Compensated / Failed) and every step at or after the cursor
\* is Pending.
C7_CursorInvariant ==
    \A k \in 0..(Len(steps) - 1) :
       IF k < current_step_index
          THEN steps[k + 1] \in {"EXECUTED", "COMPENSATING", "COMPENSATED", "FAILED"}
          ELSE steps[k + 1] = "PENDING"

\* C7 (amended): every step before the cursor is Executed, Compensating,
\* Compensated or Failed; every step after the cursor is Pending; the step at
\* the cursor is Pending, Executing while its action runs, Executed between
\* the 200 response and the advance of the cursor, or Failed, and is never
\* Compensating or Compensated.
C7_CursorInvariantAmended ==
    \A k \in 0..(Len(steps) - 1) :
       /\ (k < current_step_index =>
              steps[k + 1] \in {"EXECUTED", "COMPENSATING", "COMPENSATED", "FAILED"})
       /\ (k > current_step_index => steps[k + 1] = "PENDING")
       /\ (k = current_step_index =>
              /\ steps[k + 1] \in {"PENDING", "EXECUTING", "EXECUTED", "FAILED"}
              /\ (steps[k + 1] = "PENDING" => spc \in {"queued", "while"})
              /\ (steps[k + 1] = "EXECUTING" => spc \in {"lookup", "post"})
              /\ (steps[k + 1] = "EXECUTED" => spc = "store")
              /\ (steps[k + 1] = "FAILED" =>
                     spc \in {"compensate", "comp_for", "comp_lookup", "comp_post", "done"}))

\* C7 witness: the second step of a 3-step saga has failed while the first is
\* being compensated and the third is still Pending
C7_Witness ==
    /\ Len(steps) = 3
    /\ current_step_index = 1
    /\ steps = <<"COMPENSATING", "FAILED", "PENDING">>

(***************************************************************************)
(* Circuit breaker: recovery, HALF_OPEN and fallback (SpecCB).             *)
(***************************************************************************)

\* C11: a call on an OPEN breaker invokes the function, in state HALF_OPEN,
\* if and only if now - last_failure_time > recovery_timeout (strictly);
\* otherwise the function is not invoked and the breaker stays OPEN.
C11_OpenCallProbesIffElapsed ==
    [][(CallFunc /\ state = "OPEN") =>
          /\ invoked' <=> (now - last_failure_time > recovery_timeout)
          /\ invoked' => invoked_in' = "HALF_OPEN"
          /\ ~invoked' => (state' = "OPEN" /\ invoked_in' = "none"
                           /\ failure_count' = failure_count
                           /\ last_failure_time' = last_failure_time)]_vars

\* an OPEN breaker let a call through after the timeout and was closed by it,
\* after an earlier call at exactly the timeout had been refused
C11_Witness ==
    /\ invoked_in = "HALF_OPEN"
    /\ state = "CLOSED"
    /\ result = "success"
    /\ now - last_failure_time > recovery_timeout

\* C12: one call invoked in HALF_OPEN decides the state: when the function
\* returns, the breaker is CLOSED with failure_count = 0; when it raises an
\* Exception, the breaker is OPEN, failure_count is one more,
\* last_failure_time is the time of this failure, and a call at that time is
\* rejected again.
C12_HalfOpenDecides ==
    [][(CallFunc /\ invoked' /\ invoked_in' = "HALF_OPEN") =>
          /\ result' = "success" => (state' = "CLOSED" /\ failure_count' = 0)
          /\ FailedCall => /\ state' = "OPEN"
                           /\ failure_count' = failure_count + 1
                           /\ last_failure_time' = now'
                           /\ Rejected'
          /\ result' = "success" \/ FailedCall \/ result' = "CircuitBreakerError"]_vars

\* a probe call failed and re-opened the breaker at a later failure time
C12_Witness ==
    /\ invoked_in = "HALF_OPEN"
    /\ state = "OPEN"
    /\ failure_count > failure_threshold
    /\ last_failure_time = now
    /\ last_failure_time > recovery_timeout

\* C13: with a fallback function, a call whose function raises an Exception
\* gives the fallback's result in every state, the failure being counted and
\* the transition applied, and a rejected call gives the fallback's result
\* without invoking the function; without one, the Exception propagates and
\* a rejected call raises CircuitBreakerError.
C13_FallbackPrecedence ==
    [][CallFunc =>
          /\ FailedCall =>
                /\ result' = (IF fallback_function THEN "fallback" ELSE "Exception")
                /\ failure_count' = failure_count + 1
                /\ (invoked_in' = "HALF_OPEN" \/ failure_count' >= failure_threshold)
                      => state' = "OPEN"
          /\ (state = "OPEN" /\ ~RecoveryElapsed) =>
                /\ ~invoked'
                /\ result' = (IF fallback_function THEN "fallback"
                                                   ELSE "CircuitBreakerError")]_vars

\* with a fallback, a rejected call on an OPEN breaker gave the fallback's result
C13_Witness ==
    /\ fallback_function
    /\ state = "OPEN"
    /\ ~invoked
    /\ result = "fallback"
    /\ failure_count >= failure_threshold

(***************************************************************************)
(* retry alone (SpecRetry).                                                *)
(***************************************************************************)

\* the last call was of an operation that only fails with retryable errors
OnlyRetryableErrors ==
    /\ outs_in # <<>>
    /\ \A k \in 1..Len(outs_in) : outs_in[k] \in {"ok", "retryable"}

RECURSIVE FirstError(_, _)
FirstError(outs, k) ==
    IF k > Len(outs) THEN 0
    ELSE IF outs[k] = "other" THEN k
    ELSE IF outs[k] = "ok" THEN 0
    ELSE FirstError(outs, k + 1)

AllowedSagaChange ==
    <<saga_state, saga_state'>> \in
       {<<"NONE", "STARTED">>, <<"STARTED", "EXECUTING">>,
        <<"EXECUTING", "COMPLETED">>, <<"EXECUTING", "COMPENSATING">>,
        <<"COMPENSATING", "FAILED">>}

\* C16: the saga state changes only along Started -> Executing -> Completed
\* or Started -> Executing -> Compensating -> Failed; Completed and Failed
\* never change again; and the saga is never Completed once the action of a
\* step has failed.
C16_SagaStateMachine ==
    /\ [][saga_state' # saga_state => AllowedSagaChange]_vars
    /\ [][(saga_state \in {"COMPLETED", "FAILED"}) => saga_state' = saga_state]_vars
    /\ [](failed_at >= 0 => saga_state # "COMPLETED")

\* a three-step saga went Started, Executing, Compensating, Failed after its
\* last action failed
C16_Witness ==
    /\ saga_state = "FAILED"
    /\ Len(steps) = 3
    /\ failed_at = 2
    /\ spc = "done"

IsCompensation(c) == c.kind = "compensation"

IsAction(c) == c.kind = "action"

\* the compensation calls made so far, in order
CompSeq == SelectSeq(remote_calls, IsCompensation)

\* the compensation of step k was attempted: its endpoint was called, or its
\* service address did not resolve
CompAttempted(k) ==
    \/ \E i \in 1..Len(CompSeq) : CompSeq[i].step_id = StepId(k)
    \/ k \in unresolved

\* C17: compensation endpoints are called in strictly descending step index,
\* below current_step_index; a compensation that fails marks its step Failed
\* and the walk goes on to the earlier steps, down to step 0; when the walk
\* is over the saga is Failed whatever the compensations did.
C17_ReverseBestEffort ==
    /\ [](\A i, j \in 1..Len(CompSeq) :
             i < j => CompSeq[i].step_id > CompSeq[j].step_id)
    /\ [](\A i \in 1..Len(CompSeq) : CompSeq[i].step_id <= current_step_index - 1)
    /\ [](spc \in {"comp_for", "comp_lookup", "comp_post"} =>
             \A k \in 0..(current_step_index - 1) :
                k > comp_i => (CompAttempted(k) /\ steps[k + 1] \in {"COMPENSATED", "FAILED"}))
    /\ []((spc = "done" /\ failed_at >= 0) =>
             /\ saga_state = "FAILED"
             /\ \A k \in 0..(current_step_index - 1) :
                   CompAttempted(k) /\ steps[k + 1] \in {"COMPENSATED", "FAILED"})
    /\ [][(spc \in {"comp_lookup", "comp_post"} /\ comp_i > 0) =>
             (spc' = "comp_for" => comp_i' = comp_i - 1)]_vars

\* the compensation of step 1 was called and failed, and step 0 was still
\* compensated afterwards
C17_Witness ==
    /\ spc = "done"
    /\ saga_state = "FAILED"
    /\ steps = <<"COMPENSATED", "FAILED", "FAILED">>
    /\ Len(CompSeq) = 2
    /\ CompSeq[1].step_id = StepId(1)
    /\ CompSeq[2].step_id = StepId(0)

\* C18: when the action of a step fails, the step is Failed, the cursor stays
\* on it, no action is called afterwards (so none of a later step) and the
\* saga becomes Compensating; over the saga's life the cursor only moves by
\* +1, from a step that is Executed.
C18_ForwardFailure ==
    /\ [](failed_at >= 0 =>
             /\ current_step_index = failed_at
             /\ steps[failed_at + 1] = "FAILED"
             /\ \A i \in 1..Len(remote_calls) :
                   IsAction(remote_calls[i]) => remote_calls[i].step_id <= StepId(failed_at)
             /\ saga_state \in {"COMPENSATING", "FAILED"} \/ spc = "compensate")
    /\ [][failed_at >= 0 =>
             SelectSeq(remote_calls', IsAction) = SelectSeq(remote_calls, IsAction)]_vars
    /\ [][spc = "compensate" => saga_state' = "COMPENSATING"]_sagaVars
    /\ [][current_step_index' # current_step_index =>
             /\ current_step_index' = current_step_index + 1
             /\ steps[current_step_index + 1] = "EXECUTED"]_vars

\* the action of the second of three steps failed: the cursor is on it, the
\* third step is untouched and the saga is Compensating
C18_Witness ==
    /\ failed_at = 1
    /\ current_step_index = 1
    /\ saga_state = "COMPENSATING"
    /\ Len(steps) = 3
    /\ steps[2] = "FAILED"
    /\ steps[3] = "PENDING"

(***************************************************************************)
(* Transaction coordinator: guards and commit failure (SpecTx).            *)
(***************************************************************************)

\* thread t starts the public method m in this step
Begins(t, m) == pc[t] = "idle" /\ opCount' = opCount + 1 /\ op'[t] = m

\* the step returned False at once, called no participant and changed
\* neither the status nor the participant list
RefusedWithoutEffect(t) ==
    /\ pc'[t] = "idle"
    /\ ret'[t] = "False"
    /\ calls'[t] = NoCalls
    /\ UNCHANGED <<status, participants, sentPrepare, sentCommit, sentAbort>>

\* C19: prepare_transaction on a status other than CREATED, and
\* commit_transaction on a status other than PREPARED, return False, call no
\* participant method and leave status and participants as they were.
C19_GuardsHaveNoEffect ==
    [][\A t \in Threads :
          /\ ((Begins(t, "prepare") \/ Begins(t, "execute")) /\ status # "CREATED")
                => RefusedWithoutEffect(t)
          /\ (Begins(t, "commit") /\ status # "PREPARED")
                => RefusedWithoutEffect(t)]_vars

\* commit before prepare: refused on a CREATED transaction with two
\* participants, none of which was called
C19_Witness ==
    /\ op[MainThread] = "commit"
    /\ pc[MainThread] = "idle"
    /\ ret[MainThread] = "False"
    /\ status = "CREATED"
    /\ Len(participants) = 2
    /\ calls[MainThread] = NoCalls

\* thread t leaves the commit loop with False in this step
CommitReturnsFalse(t) == pc[t] = "commit" /\ pc'[t] = "idle" /\ ret'[t] = "False"

\* C20: when a participant's commit returns False or raises, the loop ends
\* at that participant: the later participants get no commit, the earlier
\* ones got one each, no abort is called, False is returned and the status
\* stays PREPARED.
C20_CommitFailureStops ==
    [][\A t \in Threads : CommitReturnsFalse(t) =>
          /\ status = "PREPARED" /\ status' = "PREPARED"
          /\ sentAbort' = sentAbort
          /\ \A p \in Parts : calls'[t]["abort"][p] = 0
          /\ \A j \in 1..Len(participants) :
                calls'[t]["commit"][participants[j]] = (IF j <= idx[t] THEN 1 ELSE 0)]_vars

\* of two participants the first failed to commit: the second got no commit
\* and the transaction is still PREPARED
C20_Witness ==
    /\ op[MainThread] = "commit"
    /\ pc[MainThread] = "idle"
    /\ ret[MainThread] = "False"
    /\ status = "PREPARED"
    /\ Len(participants) = 2
    /\ calls[MainThread]["commit"][participants[1]] = 1
    /\ calls[MainThread]["commit"][participants[2]] = 0

\* thread t leaves abort_transaction's loop in this step
AbortReturns(t) == pc[t] = "abort" /\ pc'[t] = "idle"

\* C21: abort_transaction on a known id calls abort on every registered
\* participant, whatever the earlier aborts returned or raised, then sets
\* the status to ABORTED and returns True; on an unknown id it returns False.
C21_AbortCallsEveryone ==
    [][\A t \in Threads :
          /\ (Begins(t, "abort") /\ status = "NONE") =>
                (pc'[t] = "idle" /\ ret'[t] = "False" /\ status' = "NONE")
          /\ (Begins(t, "abort") /\ status # "NONE") => pc'[t] = "abort"
          /\ AbortReturns(t) =>
                /\ ret'[t] = "True"
                /\ status' = "ABORTED"
                /\ \A j \in 1..Len(participants) :
                      calls'[t]["abort"][participants[j]] = 1]_vars

\* abort_transaction returned True after calling abort on both participants
C21_Witness ==
    /\ op[MainThread] = "abort"
    /\ pc[MainThread] = "idle"
    /\ ret[MainThread] = "True"
    /\ status = "ABORTED"
    /\ Len(participants) = 2
    /\ \A j \in 1..2 : calls[MainThread]["abort"][participants[j]] = 1

\* thread t leaves execute_transaction in this step
ExecuteReturns(t) == op[t] = "execute" /\ pc[t] # "idle" /\ pc'[t] = "idle"

\* C22 (as claimed): execute_transaction returns True exactly when every
\* prepare and every commit succeeded, the status then being COMMITTED with
\* each participant prepared once and committed once; when a prepare fails
\* it returns False, no participant receives commit and the status is
\* ABORTED.
C22_ExecuteIsPrepareThenCommit ==
    [][\A t \in Threads : ExecuteReturns(t) =>
          /\ ret'[t] \in {"True", "False"}
          /\ ret'[t] = "True" =>
                /\ status' = "COMMITTED"
                /\ failedAt[t] = 0
                /\ \A j \in 1..Len(participants) :
                      /\ calls'[t]["prepare"][participants[j]] = 1
                      /\ calls'[t]["commit"][participants[j]] = 1
          /\ (ret'[t] = "False" /\ failedAt[t] = 0) =>
                (status' = "PREPARED" /\ pc[t] = "commit")
          /\ failedAt[t] # 0 =>
                /\ ret'[t] = "False"
                /\ status' = "ABORTED"
                /\ \A p \in Parts : calls'[t]["commit"][p] = 0]_vars

\* the part of C22 that does not depend on what abort does: a True result
\* means COMMITTED with one prepare and one commit each, and after a failed
\* prepare no participant receives commit and True is not returned
C22_ExecuteWithoutAbortOutcome ==
    [][\A t \in Threads : ExecuteReturns(t) =>
          /\ ret'[t] = "True" =>
                /\ status' = "COMMITTED"
                /\ failedAt[t] = 0
                /\ \A j \in 1..Len(participants) :
                      /\ calls'[t]["prepare"][participants[j]] = 1
                      /\ calls'[t]["commit"][participants[j]] = 1
          /\ failedAt[t] # 0 =>
                /\ ret'[t] \in {"False", "raised"}
                /\ ret'[t] = "False" => status' = "ABORTED"
                /\ \A p \in Parts : calls'[t]["commit"][p] = 0]_vars

(***************************************************************************)
(* Fallback strategies (SpecFallback).                                     *)
(***************************************************************************)

\* the first strategy of the chain that returns, 0 if every one raises
RECURSIVE FirstReturning(_, _)
FirstReturning(strats, k) ==
    IF k > Len(strats) THEN 0
    ELSE IF strats[k] = "return" THEN k
    ELSE FirstReturning(strats, k + 1)

\* C23: ChainedFallback.execute calls its strategies in list order and
\* returns the result of the first one that does not raise, calling none
\* after it; if every strategy raises, the exception of the last one is
\* raised; an empty chain raises; it never returns unless a strategy
\* returned.
C23_ChainedFallback ==
    fb_op = "execute" =>
       LET f == FirstReturning(strategies, 1)
           n == Len(strategies)
       IN
       /\ f > 0 => /\ fb_outcome = Returns(f)
                   /\ fb_calls = [i \in 1..f |-> [callee |-> i, args |-> fb_args]]
       /\ (f = 0 /\ n > 0) =>
                   /\ fb_outcome = Raises(n)
                   /\ fb_calls = [i \in 1..n |-> [callee |-> i, args |-> fb_args]]
       /\ n = 0 => (fb_outcome.kind = "raise" /\ fb_calls = <<>>)
       /\ fb_outcome.kind = "return" =>
             (fb_outcome.value \in 1..n /\ strategies[fb_outcome.value] = "return")

\* a chain of three whose first two strategies raised returned the third's
\* value (second case: all three raised and the third's exception came out)
C23_Witness ==
    /\ fb_op = "execute"
    /\ strategies = <<"raise", "raise", "return">>
    /\ fb_outcome = Returns(3)
    /\ Len(fb_calls) = 3

\* C24: with_fallback(strategy)(func): func is called exactly once, first;
\* when it returns, its result is returned and strategy.execute is not
\* called; when it raises an exception of any type, the result is that of
\* strategy.execute, called with the same arguments.
C24_WithFallback ==
    fb_op = "wrapper" =>
       /\ fb_calls # <<>>
       /\ fb_calls[1] = [callee |-> Func, args |-> fb_args]
       /\ \A i \in 2..Len(fb_calls) :
             fb_calls[i].callee # Func /\ fb_calls[i].args = fb_args
       /\ fb_func = "ok" => (fb_outcome = Returns(Func) /\ Len(fb_calls) = 1)
       /\ fb_func # "ok" =>
             /\ fb_outcome = ChainedFallback_execute(strategies).res
             /\ strategies # <<>> => Len(fb_calls) >= 2

\* a function raised a non-retryable error and the strategy's value came back
C24_Witness ==
    /\ fb_op = "wrapper"
    /\ fb_func = "other"
    /\ strategies = <<"return">>
    /\ fb_outcome = Returns(1)
    /\ fb_calls = <<[callee |-> Func, args |-> fb_args], [callee |-> 1, args |-> fb_args]>>

(***************************************************************************)
(* breaker(retry(with_fallback(op))) as a whole (SpecStack).               *)
(***************************************************************************)

\* the step is a call of the decorated function that reached the operation,
\* which raised a retryable error on every attempt
AllAttemptsFailedCall ==
    /\ StackCall
    /\ invoked'
    /\ \A k \in 1..Len(outs_in') : outs_in'[k] = "retryable"

\* C25 (as claimed): in breaker(retry(with_fallback(op))) a call whose
\* operation fails on every retry attempt counts as a failure of the
\* breaker, so that the failure_threshold-th such call leaves it OPEN (and
\* calls made before the recovery timeout are then answered by the fallback
\* without invoking the operation).
C25_StackFailuresOpenBreaker ==
    [][AllAttemptsFailedCall =>
          /\ failure_count' = failure_count + 1
          /\ failure_count' >= failure_threshold => state' = "OPEN"]_vars

\* what the code does instead: in the stack the breaker never records a
\* failure and never leaves CLOSED
C25_BreakerNeverOpens ==
    /\ state = "CLOSED"
    /\ failure_count = 0

(***************************************************************************)
(* The breaker under concurrent callers (SpecCBConc).                      *)
(***************************************************************************)

\* thread t returns from get_state in this step
GetStateReturns(t) == cpc[t] = "get_time" /\ cpc'[t] = "idle"

\* C26: under any interleaving of threads calling call, reset and get_state,
\* a call's state test, outcome recording and transition are not interleaved
\* with another thread's (at most one thread is inside the lock); no update
\* of failure_count is lost (from a fresh breaker, k failed calls with
\* k < failure_threshold leave failure_count = k and the state CLOSED); and
\* the dict returned by get_state is the state, failure_count and
\* last_failure_time the breaker has at the moment of the return.
C26_LockedBreaker ==
    /\ [](\A t \in Threads : cpc[t] # "idle" => cb_lock = t)
    /\ [](failure_count = failures)
    /\ []((state = "CLOSED" /\ cb_lock = "free" /\ failures < failure_threshold) =>
             failure_count = failures)
    /\ [][\A t \in Threads : GetStateReturns(t) =>
             snapshot'[t] = [state |-> state, failure_count |-> failure_count,
                             last_failure_time |-> last_failure_time]]_vars
    /\ [][\A t \in Threads : cb_lock = t =>
             (cb_lock' \in {t, "free"} /\ \A u \in Threads \ {t} : cpc'[u] = cpc[u])]_vars

\* two failed calls, made while the other thread was using the breaker too,
\* were both counted
C26_Witness ==
    /\ failure_threshold = 3
    /\ failures = 2
    /\ failure_count = 2
    /\ state = "CLOSED"
    /\ cb_ops = 3
    /\ snapshot["t2"].failure_count = 1
    /\ cb_lock = "free"

\* thread t's reset() takes effect and returns in this step
ResetReturns(t) == cpc[t] = "reset" /\ cpc'[t] = "idle"

\* C27 (as claimed): reset() in any reachable state leaves the breaker
\* CLOSED with failure_count 0 and last_failure_time 0 (so a second reset
\* changes nothing), and on a breaker that is already CLOSED with
\* failure_count 0 it changes nothing that get_state() returns.
C27_ResetNoOpOnClosed ==
    [][\A t \in Threads : ResetReturns(t) =>
          /\ get_state' = FreshState
          /\ (state = "CLOSED" /\ failure_count = 0) => get_state' = get_state]_vars

\* C27 (amended): reset() in any reachable state leaves the breaker CLOSED
\* with failure_count 0 and last_failure_time 0 (so a second reset changes
\* nothing); on a breaker that is already CLOSED with failure_count 0 it
\* leaves state and failure_count as they are, and changes nothing that
\* get_state() returns if last_failure_time is 0 too.
C27_ResetAmended ==
    [][\A t \in Threads : ResetReturns(t) =>
          /\ get_state' = FreshState
          /\ (state = "CLOSED" /\ failure_count = 0) =>
                (state' = state /\ failure_count' = failure_count)
          /\ get_state = FreshState => get_state' = get_state]_vars

\* reset() was called on a breaker that a successful HALF_OPEN call had
\* closed: the last failure time is cleared
C27_Witness ==
    /\ cop["t1"] = "reset"
    /\ cpc["t1"] = "idle"
    /\ cop["t2"] = "call"
    /\ cpc["t2"] = "idle"
    /\ invoked_in = "HALF_OPEN"
    /\ result = "success"
    /\ get_state = FreshState
    /\ now > recovery_timeout + 1

\* C28: in a call of retry that invokes the operation m times there are
\* exactly m - 1 sleeps, the i-th after the i-th invocation and before the
\* next: none after the last attempt, none after a successful attempt.
C28_SleepsBetweenAttempts ==
    outs_in # <<>> =>
       /\ invocations >= 1
       /\ Len(sleeps) = invocations - 1
       /\ \A i \in 1..Len(sleeps) : sleeps[i].after = i /\ i < invocations

\* three failed attempts with a sleep after the first and after the second
\* only
C28_Witness ==
    /\ max_attempts = 3
    /\ outs_in = <<"retryable", "retryable", "retryable">>
    /\ invocations = 3
    /\ Len(sleeps) = 2
    /\ sleeps[2].after = 2

\* the action calls made so far, in order
ActionSeq == SelectSeq(remote_calls, IsAction)

\* the steps that are being executed or compensated
StepsInFlight == {k \in 1..Len(steps) : steps[k] \in {"EXECUTING", "COMPENSATING"}}

\* C29: the remote calls of one saga are sequential and ordered: actions are
\* called in list order (each step at most once), the action of step i only
\* when steps 0..i-1 are Executed, at most one step is Executing or
\* Compensating at a time, no compensation is called before an action has
\* failed, and no action is called once compensation has begun.
C29_SequentialCalls ==
    /\ [](\A i, j \in 1..Len(ActionSeq) :
             i < j => ActionSeq[i].step_id < ActionSeq[j].step_id)
    /\ [][\A k \in 0..(Len(steps) - 1) :
             (Len(ActionSeq') = Len(ActionSeq) + 1
              /\ ActionSeq'[Len(ActionSeq')].step_id = StepId(k))
                => \A j \in 0..(k - 1) : steps[j + 1] = "EXECUTED"]_vars
    /\ [](Cardinality(StepsInFlight) <= 1)
    /\ [](CompSeq # <<>> => failed_at >= 0)
    /\ [](\A i, j \in 1..Len(remote_calls) :
             (i < j /\ IsCompensation(remote_calls[i])) => IsCompensation(remote_calls[j]))
    /\ [][(saga_state \in {"COMPENSATING", "FAILED"}) => ActionSeq' = ActionSeq]_vars

\* three actions in order, the third failed, then the compensations of step
\* 1 and step 0
C29_Witness ==
    /\ spc = "done"
    /\ Len(steps) = 3
    /\ failed_at = 2
    /\ Len(remote_calls) = 5
    /\ remote_calls[3] = [kind |-> "action", step_id |-> StepId(2), payload |-> Payload(2)]
    /\ remote_calls[4].kind = "compensation"

\* C30: whatever the service lookup, the action endpoint and the
\* compensation endpoint do, no exception leaves execute_saga or
\* compensate_saga, and the failure is recorded in the step (Failed) and in
\* the saga (Compensating, then Failed).
C30_NoExceptionFromSaga ==
    /\ [](spc # "raised")
    /\ [](failed_at >= 0 => steps[failed_at + 1] = "FAILED")
    /\ []((failed_at >= 0 /\ spc # "compensate") => saga_state \in {"COMPENSATING", "FAILED"})
    /\ []((spc = "done" /\ failed_at >= 0) => saga_state = "FAILED")
    /\ [][(spc = "comp_post" /\ spc' = "comp_for" /\ steps'[comp_i + 1] # "COMPENSATED")
             => steps'[comp_i + 1] = "FAILED"]_vars

\* the action of step 1 failed and then the compensation of step 0 failed
\* too: both are recorded as Failed and the task ended normally
C30_Witness ==
    /\ spc = "done"
    /\ saga_state = "FAILED"
    /\ failed_at = 1
    /\ steps[1] = "FAILED"
    /\ steps[2] = "FAILED"
    /\ Len(CompSeq) = 1

(***************************************************************************)
(* Saga: requests served while a saga runs (SpecSaga).                     *)
(***************************************************************************)

\* the background task is between its first and its last statement
MidExecution == spc \notin {"none", "queued", "done", "raised"}

\* C31: create_saga returns, reporting STARTED, before the saga has been
\* executed, and while the saga is in the middle of its forward execution
\* or of its compensation a get_saga request can be served (and sees the
\* intermediate state).
C31_FireAndForget ==
    /\ [][(saga_state = "NONE" /\ saga_state' # "NONE")
             => (saga_state' = "STARTED" /\ spc' = "queued" /\ remote_calls' = <<>>)]_vars
    /\ [](MidExecution => ENABLED get_saga)

\* what get_saga does return: never an intermediate state
C31_ObservesOnlyEndStates ==
    observed.state \in {"none", "404", "STARTED", "COMPLETED", "FAILED"}

(***************************************************************************)
(* Circuit breaker: what a call may change (SpecCB).                       *)
(***************************************************************************)

\* C32: failure_count increases only in a call that invoked the function in
\* CLOSED or HALF_OPEN, and then by one; a call rejected while OPEN leaves
\* state, failure_count and last_failure_time as they were; every step that
\* makes the breaker OPEN (from CLOSED at the threshold, or again after a
\* failed HALF_OPEN probe) sets last_failure_time to the time of that failure.
C32_FailureCountFrame ==
    [][/\ (failure_count' > failure_count)
             => /\ CallFunc
                /\ invoked'
                /\ invoked_in' \in {"CLOSED", "HALF_OPEN"}
                /\ failure_count' = failure_count + 1
       /\ (CallFunc /\ Rejected)
             => /\ ~invoked'
                /\ state' = state
                /\ failure_count' = failure_count
                /\ last_failure_time' = last_failure_time
       /\ (state' = "OPEN" /\ (state # "OPEN" \/ failure_count' # failure_count))
             => last_failure_time' = now']_vars

\* a call was rejected some time after the failure that opened the breaker
C32_Witness ==
    /\ state = "OPEN"
    /\ ~invoked
    /\ result \in {"CircuitBreakerError", "fallback"}
    /\ failure_count = failure_threshold
    /\ last_failure_time > 0
    /\ last_failure_time < now

\* C33: when the function itself raises CircuitBreakerError, call re-raises
\* it: the breaker stays in the state in which it invoked the function (a
\* HALF_OPEN breaker stays HALF_OPEN), failure_count and last_failure_time
\* are unchanged, and the fallback function is not used.
C33_BreakerErrorPassesThrough ==
    [][(~Rejected /\ \E d \in 0..1 : call("cbe", "success", d))
          => /\ invoked'
             /\ result' = "CircuitBreakerError"
             /\ state' = StateAtInvoke
             /\ (state = "HALF_OPEN" => state' = "HALF_OPEN")
             /\ failure_count' = failure_count
             /\ last_failure_time' = last_failure_time]_vars

\* a breaker with a fallback function passed on the CircuitBreakerError of
\* its probe call and is left HALF_OPEN
C33_Witness ==
    /\ invoked
    /\ invoked_in = "HALF_OPEN"
    /\ result = "CircuitBreakerError"
    /\ fallback_function
    /\ state = "HALF_OPEN"

\* C37: in every reachable state of a breaker with failure_threshold >= 1,
\* CLOSED implies failure_count < failure_threshold and OPEN implies
\* failure_count >= failure_threshold.
C37_CountMatchesState ==
    /\ failure_threshold >= 1
    /\ state = "CLOSED" => failure_count < failure_threshold
    /\ state = "OPEN" => failure_count >= failure_threshold

\* a breaker that was opened, probed and re-opened: the count has passed
\* the threshold
C37_Witness ==
    /\ state = "OPEN"
    /\ invoked_in = "HALF_OPEN"
    /\ failure_count > failure_threshold

(***************************************************************************)
(* Retry: the delays (SpecRetry).                                          *)
(***************************************************************************)

\* C35: without jitter, the sleep that follows the failed attempt i (0-based)
\* lasts min(base_delay * backoff_factor^i, max_delay); with
\* backoff_factor >= 1 the delays of one call never decrease and none
\* exceeds max_delay.  (sleeps[k].time is in hundredths.)
C35_BackoffDelays ==
    ~jitter =>
       \A k \in 1..Len(sleeps) :
          LET i == k - 1 IN
          /\ sleeps[k].after = i + 1
          /\ (base_delay * Pow(backoff_factor, i) <= max_delay
                => sleeps[k].time = 100 * base_delay * Pow(backoff_factor, i))
          /\ (base_delay * Pow(backoff_factor, i) > max_delay
                => sleeps[k].time = 100 * max_delay)
          /\ sleeps[k].time <= 100 * max_delay
          /\ (k > 1 /\ backoff_factor >= 1) => sleeps[k - 1].time <= sleeps[k].time

\* two sleeps without jitter: the first is base_delay, the second is cut
\* to max_delay
C35_Witness ==
    /\ ~jitter
    /\ Len(sleeps) = 2
    /\ sleeps[1].time = 100 * base_delay
    /\ sleeps[1].time < sleeps[2].time
    /\ sleeps[2].time = 100 * max_delay
    /\ base_delay * backoff_factor > max_delay

(***************************************************************************)
(* Two-phase commit: the order of the participant calls (SpecTx).          *)
(***************************************************************************)

IsPrepareCall(e) == e.m = "prepare"

IsCommitCall(e) == e.m = "commit"

IsAbortCall(e) == e.m = "abort"

\* the calls s follow the registration order: the k-th call goes to the
\* k-th participant, and every call but the last was answered True
InRegistrationOrder(s) ==
    /\ Len(s) <= Len(participants)
    /\ \A k \in 1..Len(s) :
          /\ s[k].p = participants[k]
          /\ k < Len(s) => s[k].o = "True"

\* the calls s reached every participant exactly once, each answering True
EachOnceTrue(s) ==
    /\ Len(s) = Len(participants)
    /\ \A k \in 1..Len(s) : s[k].p = participants[k] /\ s[k].o = "True"

\* prepare and commit calls are made in registration order, a participant
\* only after all those before it answered True, and on success each
\* participant exactly once per phase
C34_RegistrationOrder ==
    \A t \in Threads :
       /\ InRegistrationOrder(SelectSeq(call_log[t], IsPrepareCall))
       /\ InRegistrationOrder(SelectSeq(call_log[t], IsCommitCall))
       /\ (pc[t] = "idle" /\ ret[t] = "True" /\ op[t] \in {"prepare", "execute"})
             => EachOnceTrue(SelectSeq(call_log[t], IsPrepareCall))
       /\ (pc[t] = "idle" /\ ret[t] = "True" /\ op[t] \in {"commit", "execute"})
             => EachOnceTrue(SelectSeq(call_log[t], IsCommitCall))

\* a method that sent abort(id) to some participant has sent it to every
\* registered participant when it ends
AbortCoversAll ==
    \A t \in Threads :
       (pc[t] # "idle" /\ pc'[t] = "idle"
        /\ SelectSeq(call_log'[t], IsAbortCall) # <<>>)
          => \A p \in Range(participants') :
                \E k \in 1..Len(call_log'[t]) :
                   call_log'[t][k].m = "abort" /\ call_log'[t][k].p = p

\* C34: prepare_transaction calls prepare(id) and commit_transaction calls
\* commit(id) on the participants in registration order, participant j only
\* after every participant registered before it returned True in that
\* phase, each exactly once on full success; and an abort covers all
\* registered participants.
C34_OrderAndAbortCoverage == []C34_RegistrationOrder /\ [][AbortCoversAll]_vars

\* C36: every participant that is sent commit(id) has been sent prepare(id)
\* before and answered True, participants registered after a successful
\* prepare_transaction included.
C36_CommitFollowsYesVote == sentCommit \subseteq sentPrepare

(***************************************************************************)
(* Saga: termination and final states (SpecSagaLive, SpecSaga).            *)
(***************************************************************************)

\* the call that a step of the task adds has not been made before
NoRepeatedCall ==
    Len(remote_calls') = Len(remote_calls) + 1
       => \A k \in 1..Len(remote_calls) :
             ~(/\ remote_calls[k].kind = remote_calls'[Len(remote_calls')].kind
               /\ remote_calls[k].step_id = remote_calls'[Len(remote_calls')].step_id)

\* C38: when every lookup, action call and compensation call returns or
\* raises, the background task of a created saga ends, with the saga
\* COMPLETED or FAILED, having called the action endpoint of each step at
\* most once and the compensation endpoint of each step at most once.
C38_SagaTerminates ==
    /\ (saga_state # "NONE") ~> (spc = "done" /\ saga_state \in {"COMPLETED", "FAILED"})
    /\ [][NoRepeatedCall]_vars
    /\ [](Len(ActionSeq) <= Len(steps) /\ Len(CompSeq) <= Len(steps))

\* a 3-step saga that ended FAILED after three action calls and two
\* compensation calls
C38_Witness ==
    /\ spc = "done"
    /\ saga_state = "FAILED"
    /\ Len(steps) = 3
    /\ Len(ActionSeq) = 3
    /\ Len(CompSeq) = 2

\* C39: in a FAILED saga every step before current_step_index is
\* COMPENSATED or FAILED, the step at current_step_index is FAILED and every
\* later step is PENDING (none is EXECUTED, EXECUTING or COMPENSATING); in a
\* COMPLETED saga every step is EXECUTED and has the result that line 158
\* stored.
C39_FinalStepStates ==
    /\ saga_state = "FAILED" =>
          /\ current_step_index < Len(steps)
          /\ \A k \in 0..(Len(steps) - 1) :
                /\ steps[k + 1] \notin {"EXECUTED", "EXECUTING", "COMPENSATING"}
                /\ k < current_step_index => steps[k + 1] \in {"COMPENSATED", "FAILED"}
                /\ k = current_step_index => steps[k + 1] = "FAILED"
                /\ k > current_step_index => steps[k + 1] = "PENDING"
    /\ saga_state = "COMPLETED" =>
          \A k \in 1..Len(steps) : steps[k] = "EXECUTED" /\ step_result[k] = "json"

\* a FAILED saga: step 0 compensated, step 1 failed, step 2 never started
C39_Witness ==
    /\ saga_state = "FAILED"
    /\ current_step_index = 1
    /\ steps = <<"COMPENSATED", "FAILED", "PENDING">>

====
